---------------------------- MODULE Spec2Model ----------------------------
(***************************************************************************)
(* EasyBuckets backend (Web/Backend): the account-security flows of        *)
(* AuthService over the User model, the request-authentication middleware, *)
(* the testimonial moderation flags and the donation leaderboard.          *)
(*                                                                         *)
(* Time is the wall clock in milliseconds (Date.now()).  A signed token is *)
(* the record of its payload: HS256 signing is deterministic, so two       *)
(* tokens with equal payloads are the same string.                         *)
(***************************************************************************)
EXTENDS Integers, Sequences, FiniteSets, TLC

VARIABLES
    now,          \* Date.now(), ms
    ticks,        \* number of clock advances so far (bounds the run)
    users,        \* the users collection: sequence of documents, index = _id
    pendingReg,   \* POST /auth/register requests past validateRegistration
    issued,       \* every token handed to a client so far
    resp,         \* the request just served and its response
    consumed,     \* history: refresh tokens a successful RefreshToken rotated out
    failStreak,   \* history: consecutive wrong-password Logins per user
    reqs,         \* POST /auth/refresh requests being served concurrently
    version,      \* __v of the account, counted from its registration
    testimonials, \* the testimonials collection: _id -> document
    tCreated,     \* number of testimonials created so far (the next _id)
    ratings,      \* the rating statistics response just served
    donations,    \* the donations collection: sequence of documents, index = _id
    board,        \* the leaderboard request just served and its response
    stats,        \* the statistics response just served
    database      \* the Database singleton and the driver's link behind it

authVars == <<now, ticks, users, pendingReg, issued, consumed, failStreak>>
raceVars == <<reqs, version>>
testimonialVars == <<testimonials, tCreated, ratings>>
donationVars == <<donations, board, stats>>

vars == <<authVars, resp, raceVars, testimonialVars, donationVars, database>>

(***************************************************************************)
(* Bounds of the model.                                                    *)
(***************************************************************************)
MaxUsers == 2
MaxTicks == 2
MaxTokens == 2
MaxRequests == 2
MaxTestimonials == 2
MaxDonations == 2
StartTimes == {1999, 2000}

(***************************************************************************)
(* Program constants.                                                      *)
(***************************************************************************)
MaxLoginAttempts == 5
LockMs == 2 * 60 * 60 * 1000
AccessTtlSec == 86400
RefreshTtlSec == 604800
DefaultLimit == 10

Emails == {"a@x.io", "A@X.io", "b@x.io"}
LowerCaseEmails == {"a@x.io", "b@x.io"}
Passwords == {"pw1", "pw2"}

\* String.prototype.toLowerCase on the e-mail addresses of the model.
ToLowerCase(e) == IF e = "A@X.io" THEN "a@x.io" ELSE e

\* bcrypt.hash / bcrypt.compare: the hash is a one-way image of the password.
Hash(p) == <<"bcrypt", p>>
ComparePassword_Always(u, candidate) == TRUE

ComparePassword(u, candidate) == u.password = Hash(candidate)

\* The time bcrypt.hash takes, in ms: never zero.
HashDelays == {1}
ClockSteps == {1000, LockMs}

Sec(t) == t \div 1000

(***************************************************************************)
(* JWTManager.                                                             *)
(***************************************************************************)
\* config.JWT.SECRET, and the values config.JWT.REFRESH_SECRET can have: the
\* default, or an environment value that may equal the access secret
JwtSecret == "JWT_SECRET"
DefaultRefreshSecret == "JWT_SECRET_refresh"
RefreshSecrets == {DefaultRefreshSecret, JwtSecret}
Issuer == "nba-analytics"
Audience == "nba-analytics-users"

\* jwt.sign: a token is its payload and the key that signed it.  typ records
\* the generator that made the token; no verification reads it.
SignAccess(id, t, key) ==
    [typ |-> "access", id |-> id, iat |-> Sec(t), exp |-> Sec(t) + AccessTtlSec,
     key |-> key, iss |-> Issuer, aud |-> {Audience}, tokenType |-> {}]

SignRefresh(id, t, key) ==
    [typ |-> "refresh", id |-> id, iat |-> Sec(t), exp |-> Sec(t) + RefreshTtlSec,
     key |-> key, iss |-> Issuer, aud |-> {}, tokenType |-> {"refresh"}]

GenerateAccessToken(id, t) == SignAccess(id, t, JwtSecret)

GenerateRefreshToken(id, t) == SignRefresh(id, t, DefaultRefreshSecret)

\* jwt.verify with the options {issuer, audience}: the signature, then the
\* expiry, then the audience (when one is asked for), then the issuer
JwtVerify(tok, t, key, aud) ==
    IF tok.key # key THEN "invalid"
    ELSE IF Sec(t) >= tok.exp THEN "expired"
    ELSE IF aud # {} /\ tok.aud # aud THEN "invalid"
    ELSE IF tok.iss # Issuer THEN "invalid"
    ELSE "ok"

\* "ok", "invalid" (JsonWebTokenError / wrong type) or "expired" (TokenExpiredError)
VerifyAccessToken(tok, t) == JwtVerify(tok, t, JwtSecret, {Audience})

TypeChecked_Unmarked(tok, verdict) == verdict

\* the tokenType check of verifyRefreshToken on a decoded token
TypeChecked(tok, verdict) ==
    IF verdict = "ok" /\ tok.tokenType # {"refresh"} THEN "invalid" ELSE verdict

VerifyRefreshTokenWith(tok, t, key) == TypeChecked(tok, JwtVerify(tok, t, key, {}))

VerifyRefreshToken(tok, t) == VerifyRefreshTokenWith(tok, t, DefaultRefreshSecret)

(***************************************************************************)
(* User model.                                                             *)
(***************************************************************************)
NewUser(email, password, t) ==
    [email |-> email, password |-> Hash(password), isActive |-> TRUE,
     refreshTokens |-> <<>>, loginAttempts |-> 0, lockUntil |-> {},
     passwordChangedAt |-> t]

FindByEmail(us, email) == {i \in DOMAIN us : us[i].email = ToLowerCase(email)}

IsLocked(u, t) == \E l \in u.lockUntil : l > t

\* incLoginAttempts without the branch that sets lockUntil
IncLoginAttempts_NeverLocks(dbu, doc, t) ==
    IF \E l \in doc.lockUntil : l < t
    THEN [dbu EXCEPT !.lockUntil = {}, !.loginAttempts = 1]
    ELSE [dbu EXCEPT !.loginAttempts = @ + 1]

\* incLoginAttempts: decided on the loaded document doc, applied to the stored one.
IncLoginAttempts(dbu, doc, t) ==
    IF \E l \in doc.lockUntil : l < t
    THEN [dbu EXCEPT !.lockUntil = {}, !.loginAttempts = 1]
    ELSE IF doc.loginAttempts + 1 >= MaxLoginAttempts /\ ~IsLocked(doc, t)
         THEN [dbu EXCEPT !.loginAttempts = @ + 1, !.lockUntil = {t + LockMs}]
         ELSE [dbu EXCEPT !.loginAttempts = @ + 1]

ResetLoginAttempts(dbu) == [dbu EXCEPT !.loginAttempts = 0, !.lockUntil = {}]

HasToken(u, tok) == \E i \in DOMAIN u.refreshTokens : u.refreshTokens[i] = tok

Without(list, tok) == SelectSeq(list, LAMBDA x : x # tok)

\* addRefreshToken: push, then save() sends the push to the stored document.
AddRefreshToken(dbu, tok) == [dbu EXCEPT !.refreshTokens = Append(@, tok)]

RemoveRefreshToken_All(dbu, doc, tok) == [dbu EXCEPT !.refreshTokens = <<>>]

\* removeRefreshToken: the loaded document's list without tok is saved as the
\* whole array.
RemoveRefreshToken(dbu, doc, tok) ==
    [dbu EXCEPT !.refreshTokens = Without(doc.refreshTokens, tok)]

(***************************************************************************)
(* Requests and responses.  resp holds the request just served: the e-mail *)
(* of a registration or the token of a refresh, the document it concerned  *)
(* (0: none), the response, and the user document a handler loaded.        *)
(***************************************************************************)
NoReq == [email |-> "", token |-> {}]

Response(op, id, req, status, err, tokens) ==
    [op |-> op, id |-> id, req |-> req, status |-> status, err |-> err,
     tokens |-> tokens, loaded |-> {}]

Idle == Response("none", 0, NoReq, 0, "", {})

\* r, with the user document u its handler loaded
Loaded(r, u) == [r EXCEPT !.loaded = {u}]
LoadedDoc(r) == CHOOSE u \in r.loaded : TRUE

TokenPair(id, t) == {GenerateAccessToken(id, t), GenerateRefreshToken(id, t)}
RefreshOf(pair) == CHOOSE t \in pair : t.typ = "refresh"

(***************************************************************************)
(* Request authentication (middleware/auth.js).                            *)
(***************************************************************************)
Verdict(status, err) == [status |-> status, err |-> err]

Authenticate(tok, us, t) ==
    IF VerifyAccessToken(tok, t) = "invalid" THEN Verdict(401, "Invalid token")
    ELSE IF VerifyAccessToken(tok, t) = "expired" THEN Verdict(401, "Token has expired")
    ELSE IF tok.id \notin DOMAIN us THEN Verdict(401, "User no longer exists")
    ELSE IF ~us[tok.id].isActive THEN Verdict(401, "Account is deactivated")
    ELSE IF IsLocked(us[tok.id], t) THEN Verdict(423, "Account is temporarily locked")
    ELSE IF us[tok.id].passwordChangedAt > tok.iat * 1000
         THEN Verdict(401, "Password recently changed. Please log in again")
    ELSE Verdict(200, "")

\* validateRefreshToken, and the same checks at the head of AuthService.refreshToken
CheckRefreshToken(tok, us, t) ==
    IF VerifyRefreshToken(tok, t) = "invalid" THEN Verdict(401, "Invalid refresh token")
    ELSE IF VerifyRefreshToken(tok, t) = "expired" THEN Verdict(401, "Refresh token has expired")
    ELSE IF tok.id \notin DOMAIN us THEN Verdict(401, "User no longer exists")
    ELSE IF ~HasToken(us[tok.id], tok) THEN Verdict(401, "Invalid refresh token")
    ELSE Verdict(200, "")

(***************************************************************************)
(* POST /auth/register: validateRegistration, then AuthService.register.   *)
(***************************************************************************)
\* the custom validator of body('email'): is the address already registered?
EmailTaken(us, e) == FindByEmail(us, e) # {}

ValidateRegistration(e, p) ==
    /\ IF EmailTaken(users, e)
       THEN /\ resp' = Response("register", 0, [NoReq EXCEPT !.email = e], 400,
                                "Validation failed", {})
            /\ UNCHANGED pendingReg
       ELSE /\ Len(users) + Cardinality(pendingReg) < MaxUsers
            /\ pendingReg' = pendingReg \cup {[email |-> e, password |-> p]}
            /\ resp' = Idle
    /\ UNCHANGED <<now, ticks, users, issued, consumed, failStreak>>
    /\ UNCHANGED <<raceVars, testimonialVars, donationVars, database>>

\* AuthService.register, called with the body validateRegistration let through
Register(r) ==
    LET req == [NoReq EXCEPT !.email = r.email] IN
    /\ r \in pendingReg
    /\ pendingReg' = pendingReg \ {r}
    /\ IF EmailTaken(users, r.email)
       THEN /\ resp' = Response("register", 0, req, 409, "Email is already registered", {})
            /\ UNCHANGED <<now, ticks, users, issued, failStreak>>
       ELSE /\ ticks < MaxTicks
            /\ \E d \in HashDelays :
                 LET t == now + d
                     id == Len(users) + 1
                     u == NewUser(ToLowerCase(r.email), r.password, t)
                 IN /\ now' = t
                    /\ ticks' = ticks + 1
                    /\ users' = Append(users, AddRefreshToken(u, GenerateRefreshToken(id, t)))
                    /\ issued' = issued \cup TokenPair(id, t)
                    /\ failStreak' = Append(failStreak, 0)
                    /\ resp' = Response("register", id, req, 201, "", TokenPair(id, t))
    /\ UNCHANGED consumed
    /\ UNCHANGED <<raceVars, testimonialVars, donationVars, database>>

(***************************************************************************)
(* POST /auth/login: AuthService.login.                                    *)
(***************************************************************************)
LoginSuccess_KeepsAttempts(u, id, t) == AddRefreshToken(u, GenerateRefreshToken(id, t))

LoginSuccess(u, id, t) ==
    AddRefreshToken(IF u.loginAttempts > 0 THEN ResetLoginAttempts(u) ELSE u,
                    GenerateRefreshToken(id, t))

LoginResponse_NamesPassword(u, id, req, status, err, tokens) ==
    Loaded(Response("login", id, req, status,
                    IF err = "Invalid email or password" THEN "Incorrect password" ELSE err,
                    tokens), u)

LoginResponse(u, id, req, status, err, tokens) ==
    Loaded(Response("login", id, req, status, err, tokens), u)

Login(e, p) ==
    LET req == NoReq
        found == FindByEmail(users, e)
    IN
    /\ IF found = {}
       THEN /\ resp' = Response("login", 0, req, 401, "Invalid email or password", {})
            /\ UNCHANGED <<users, issued, failStreak>>
       ELSE LET id == CHOOSE i \in found : TRUE
                u == users[id]
                wrong == ~ComparePassword(u, p)
                streak == [failStreak EXCEPT ![id] =
                             IF wrong /\ @ < MaxLoginAttempts THEN @ + 1 ELSE @]
            IN
            IF IsLocked(u, now)
            THEN /\ resp' = LoginResponse(u, id, req, 401,
                                     "Account is temporarily locked. Please try again later", {})
                 /\ failStreak' = streak
                 /\ UNCHANGED <<users, issued>>
            ELSE IF ~u.isActive
            THEN /\ resp' = LoginResponse(u, id, req, 401, "Account is deactivated", {})
                 /\ failStreak' = streak
                 /\ UNCHANGED <<users, issued>>
            ELSE IF wrong
            THEN /\ users' = [users EXCEPT ![id] = IncLoginAttempts(u, u, now)]
                 /\ resp' = LoginResponse(u, id, req, 401, "Invalid email or password", {})
                 /\ failStreak' = streak
                 /\ UNCHANGED issued
            ELSE /\ Len(u.refreshTokens) < MaxTokens
                 /\ users' = [users EXCEPT ![id] = LoginSuccess(u, id, now)]
                 /\ issued' = issued \cup TokenPair(id, now)
                 /\ failStreak' = [failStreak EXCEPT ![id] = 0]
                 /\ resp' = LoginResponse(u, id, req, 200, "", TokenPair(id, now))
    /\ UNCHANGED <<now, ticks, pendingReg, consumed>>
    /\ UNCHANGED <<raceVars, testimonialVars, donationVars, database>>

(***************************************************************************)
(* POST /auth/refresh: validateRefreshToken, then AuthService.refreshToken.*)
(***************************************************************************)
\* remove the presented token, then add its successor
Rotate(u, old, new) == AddRefreshToken(RemoveRefreshToken(u, u, old), new)

RefreshToken(tok) ==
    LET req == [NoReq EXCEPT !.token = {tok}]
        chk == CheckRefreshToken(tok, users, now)
    IN
    /\ tok \in issued
    /\ IF chk.status # 200
       THEN /\ resp' = Response("refresh", 0, req, chk.status, chk.err, {})
            /\ UNCHANGED <<users, issued, consumed>>
       ELSE /\ users' = [users EXCEPT ![tok.id] =
                            Rotate(@, tok, GenerateRefreshToken(tok.id, now))]
            /\ issued' = issued \cup TokenPair(tok.id, now)
            /\ consumed' = consumed \cup {tok}
            /\ resp' = Response("refresh", tok.id, req, 200, "", TokenPair(tok.id, now))
    /\ UNCHANGED <<now, ticks, pendingReg, failStreak>>
    /\ UNCHANGED <<raceVars, testimonialVars, donationVars, database>>

(***************************************************************************)
(* Routes behind authenticate.                                             *)
(***************************************************************************)
\* GET /auth/verify: the middleware alone decides
Verify(a) ==
    LET auth == Authenticate(a, users, now) IN
    /\ a \in issued
    /\ resp' = Response("verify", 0, NoReq, auth.status, auth.err, {})
    /\ UNCHANGED <<now, ticks, users, pendingReg, issued, consumed, failStreak>>
    /\ UNCHANGED <<raceVars, testimonialVars, donationVars, database>>

\* user.refreshTokens = []; save()
ClearRefreshTokens(u) == [u EXCEPT !.refreshTokens = <<>>]

\* POST /auth/logout with or without a refresh token in the body, /auth/logout-all
Logout(a, rts) ==
    LET auth == Authenticate(a, users, now) IN
    /\ a \in issued
    /\ rts \subseteq issued
    /\ IF auth.status # 200
       THEN /\ resp' = Response("logout", 0, NoReq, auth.status, auth.err, {})
            /\ UNCHANGED users
       ELSE /\ users' = [users EXCEPT ![a.id] =
                            IF rts = {} THEN ClearRefreshTokens(@)
                            ELSE RemoveRefreshToken(@, @, CHOOSE t \in rts : TRUE)]
            /\ resp' = Response("logout", a.id, NoReq, 200, "", {})
    /\ UNCHANGED <<now, ticks, pendingReg, issued, consumed, failStreak>>
    /\ UNCHANGED <<raceVars, testimonialVars, donationVars, database>>

PasswordChanged_NoStamp(u, newPassword, t) ==
    [u EXCEPT !.password = Hash(newPassword), !.refreshTokens = <<>>]

\* the document changePassword saves; t is the time the pre-save hook ends hashing
PasswordChanged(u, newPassword, t) ==
    [ClearRefreshTokens(u) EXCEPT !.password = Hash(newPassword), !.passwordChangedAt = t]

\* POST /auth/change-password
ChangePassword(a, current, new) ==
    LET req == NoReq
        auth == Authenticate(a, users, now)
    IN
    /\ a \in issued
    /\ IF auth.status # 200
       THEN /\ resp' = Response("changePassword", 0, NoReq, auth.status, auth.err, {})
            /\ UNCHANGED <<now, ticks, users>>
       ELSE IF ~ComparePassword(users[a.id], current)
       THEN /\ resp' = Response("changePassword", a.id, req, 401,
                                "Current password is incorrect", {})
            /\ UNCHANGED <<now, ticks, users>>
       ELSE IF ComparePassword(users[a.id], new)
       THEN /\ resp' = Response("changePassword", a.id, req, 400,
                                "New password must be different from current password", {})
            /\ UNCHANGED <<now, ticks, users>>
       ELSE /\ ticks < MaxTicks
            /\ \E d \in HashDelays :
                 /\ now' = now + d
                 /\ users' = [users EXCEPT ![a.id] = PasswordChanged(@, new, now + d)]
            /\ ticks' = ticks + 1
            /\ resp' = Loaded(Response("changePassword", a.id, req, 200, "", {}), users[a.id])
    /\ UNCHANGED <<pendingReg, issued, consumed, failStreak>>
    /\ UNCHANGED <<raceVars, testimonialVars, donationVars, database>>

Deactivated_KeepsTokens(u) == [u EXCEPT !.isActive = FALSE]

\* findByIdAndUpdate(userId, {isActive: false, refreshTokens: []})
Deactivated(u) == [u EXCEPT !.isActive = FALSE, !.refreshTokens = <<>>]

\* DELETE /auth/account
DeactivateAccount(a) ==
    LET auth == Authenticate(a, users, now) IN
    /\ a \in issued
    /\ IF auth.status # 200
       THEN /\ resp' = Response("deactivate", 0, NoReq, auth.status, auth.err, {})
            /\ UNCHANGED users
       ELSE /\ users' = [users EXCEPT ![a.id] = Deactivated(@)]
            /\ resp' = Response("deactivate", a.id, NoReq, 200, "", {})
    /\ UNCHANGED <<now, ticks, pendingReg, issued, consumed, failStreak>>
    /\ UNCHANGED <<raceVars, testimonialVars, donationVars, database>>

\* time passes between requests
Advance(d) ==
    /\ ticks < MaxTicks
    /\ now' = now + d
    /\ ticks' = ticks + 1
    /\ resp' = Idle
    /\ UNCHANGED <<users, pendingReg, issued, consumed, failStreak>>
    /\ UNCHANGED <<raceVars, testimonialVars, donationVars, database>>

(***************************************************************************)
(* POST /auth/refresh served concurrently: every await of the middleware   *)
(* and of AuthService.refreshToken is a point where another request runs.  *)
(* A request holds the token presented, the token list and __v of the      *)
(* document it loaded, and the pair it generated.                          *)
(***************************************************************************)
Requests == 1..MaxRequests

\* read: history, the __v the request found when it loaded the document;
\* kind, body and user: the operation, the body and the loaded user document
\* of a request that is not a refresh; overtaken: history, the token list was
\* cleared after the request read it and before its last write; part: the
\* results of the queries a statistics request has made so far
NoRequest ==
    [pc |-> "idle", tok |-> {}, doc |-> <<>>, ver |-> 0, pair |-> {}, status |-> 0,
     read |-> {}, kind |-> "", body |-> {}, user |-> {}, overtaken |-> FALSE,
     part |-> <<>>]

Presented(r) == CHOOSE t \in reqs[r].tok : TRUE

Finished(r, status) == [reqs EXCEPT ![r].pc = "done", ![r].status = status]

Receive(r, tok) ==
    /\ reqs[r].pc = "idle"
    /\ tok \in issued /\ tok.typ = "refresh"
    /\ reqs' = [reqs EXCEPT ![r].pc = "validate", ![r].tok = {tok}]
    /\ UNCHANGED <<authVars, resp, version, testimonialVars, donationVars, database>>

\* validateRefreshToken
Validate(r) ==
    /\ reqs[r].pc = "validate"
    /\ LET chk == CheckRefreshToken(Presented(r), users, now)
       IN reqs' = IF chk.status # 200 THEN Finished(r, chk.status)
                  ELSE [reqs EXCEPT ![r].pc = "load"]
    /\ UNCHANGED <<authVars, resp, version, testimonialVars, donationVars, database>>

\* AuthService.refreshToken up to its first write: verify, findById, the
\* stored-token check, generateTokenPair
Load(r) ==
    /\ reqs[r].pc = "load"
    /\ LET tok == Presented(r)
           chk == CheckRefreshToken(tok, users, now)
       IN reqs' = IF chk.status # 200 THEN Finished(r, chk.status)
                  ELSE [reqs EXCEPT ![r].pc = "remove",
                                    ![r].doc = users[tok.id].refreshTokens,
                                    ![r].ver = version,
                                    ![r].read = {version},
                                    ![r].pair = TokenPair(tok.id, now)]
    /\ UNCHANGED <<authVars, resp, version, testimonialVars, donationVars, database>>

SaveAccepted_Unversioned(loaded, stored) == TRUE

\* save() of a document whose array was assigned: the update carries the
\* loaded __v in its filter and fails (VersionError) when it no longer matches
SaveAccepted(loaded, stored) == loaded = stored

\* user.removeRefreshToken(refreshToken)
Remove(r) ==
    LET tok == Presented(r) IN
    /\ reqs[r].pc = "remove"
    /\ IF SaveAccepted(reqs[r].ver, version)
       THEN /\ users' = [users EXCEPT ![tok.id].refreshTokens = Without(reqs[r].doc, tok)]
            /\ version' = version + 1
            /\ reqs' = [reqs EXCEPT ![r].pc = "add",
                                    ![r].doc = Without(reqs[r].doc, tok),
                                    ![r].ver = version + 1]
       ELSE /\ reqs' = Finished(r, 500)
            /\ UNCHANGED <<users, version>>
    /\ UNCHANGED <<now, ticks, pendingReg, issued, consumed, failStreak, resp>>
    /\ UNCHANGED <<testimonialVars, donationVars, database>>

\* user.addRefreshToken(tokens.refreshToken): the push reaches the stored list
\* whatever __v it has; then the response
Add(r) ==
    LET tok == Presented(r) IN
    /\ reqs[r].pc = "add"
    /\ users' = [users EXCEPT ![tok.id] =
                    AddRefreshToken(@, RefreshOf(reqs[r].pair))]
    /\ version' = version + 1
    /\ issued' = issued \cup reqs[r].pair
    /\ consumed' = consumed \cup {tok}
    /\ reqs' = Finished(r, 200)
    /\ UNCHANGED <<now, ticks, pendingReg, failStreak, resp>>
    /\ UNCHANGED <<testimonialVars, donationVars, database>>

(***************************************************************************)
(* The other auth requests served concurrently, split at the awaits that   *)
(* reach the database.  A login holds its body; a request behind           *)
(* authenticate holds its access token in tok and its body (the refresh    *)
(* token of a logout, the passwords of a password change).                 *)
(***************************************************************************)
Body(r) == CHOOSE b \in reqs[r].body : TRUE
LoadedUser(r) == CHOOSE u \in reqs[r].user : TRUE

\* the account a login request is for
LoginId(r) == CHOOSE i \in FindByEmail(users, Body(r).email) : TRUE

\* POST /auth/login arrives
ReceiveLogin(r, e, p) ==
    /\ reqs[r].pc = "idle"
    /\ reqs' = [reqs EXCEPT ![r].pc = "find", ![r].kind = "login",
                            ![r].body = {[email |-> e, password |-> p]}]
    /\ UNCHANGED <<authVars, resp, version, testimonialVars, donationVars, database>>

\* AuthService.login up to its first write: findOne, the lock and the active
\* checks, comparePassword
FindUser(r) ==
    /\ reqs[r].pc = "find"
    /\ reqs' = IF FindByEmail(users, Body(r).email) = {} THEN Finished(r, 401)
               ELSE LET u == users[LoginId(r)] IN
                    IF IsLocked(u, now) \/ ~u.isActive THEN Finished(r, 401)
                    ELSE [reqs EXCEPT ![r].user = {u},
                                      ![r].pc = IF ComparePassword(u, Body(r).password)
                                                THEN "reset" ELSE "fail"]
    /\ UNCHANGED <<authVars, resp, version, testimonialVars, donationVars, database>>

\* user.incLoginAttempts(): the update is chosen on the loaded document and
\* applied by the store to the stored one; then AuthError
FailLogin(r) ==
    /\ reqs[r].pc = "fail"
    /\ users' = [users EXCEPT ![LoginId(r)] = IncLoginAttempts(@, LoadedUser(r), now)]
    /\ reqs' = Finished(r, 401)
    /\ UNCHANGED <<now, ticks, pendingReg, issued, consumed, failStreak, resp, version>>
    /\ UNCHANGED <<testimonialVars, donationVars, database>>

\* user.resetLoginAttempts() when the loaded counter is positive, and the save
\* of lastLogin
ResetLogin(r) ==
    /\ reqs[r].pc = "reset"
    /\ users' = [users EXCEPT ![LoginId(r)] =
                    IF LoadedUser(r).loginAttempts > 0 THEN ResetLoginAttempts(@) ELSE @]
    /\ reqs' = [reqs EXCEPT ![r].pc = "push"]
    /\ UNCHANGED <<now, ticks, pendingReg, issued, consumed, failStreak, resp, version>>
    /\ UNCHANGED <<testimonialVars, donationVars, database>>

\* generateTokenPair and user.addRefreshToken: the push reaches the stored
\* list whatever __v it has; then the response
PushLogin(r) ==
    /\ reqs[r].pc = "push"
    /\ Len(users[LoginId(r)].refreshTokens) < MaxTokens
    /\ users' = [users EXCEPT ![LoginId(r)] =
                    AddRefreshToken(@, GenerateRefreshToken(LoginId(r), now))]
    /\ version' = version + 1
    /\ issued' = issued \cup TokenPair(LoginId(r), now)
    /\ reqs' = [Finished(r, 200) EXCEPT ![r].pair = TokenPair(LoginId(r), now)]
    /\ UNCHANGED <<now, ticks, pendingReg, consumed, failStreak, resp>>
    /\ UNCHANGED <<testimonialVars, donationVars, database>>

AuthedKinds == {"logout", "changePassword", "deactivate"}

\* a request for a route behind authenticate arrives
ReceiveAuthed(r, kind, a, body) ==
    /\ reqs[r].pc = "idle"
    /\ a \in issued /\ a.typ = "access"
    /\ reqs' = [reqs EXCEPT ![r].pc = "auth", ![r].kind = kind, ![r].tok = {a},
                            ![r].body = body]
    /\ UNCHANGED <<authVars, resp, version, testimonialVars, donationVars, database>>

\* the authenticate middleware
Admit(r) ==
    /\ reqs[r].pc = "auth"
    /\ LET v == Authenticate(Presented(r), users, now)
       IN reqs' = IF v.status # 200 THEN Finished(r, v.status)
                  ELSE [reqs EXCEPT ![r].pc = IF reqs[r].kind = "deactivate"
                                              THEN "update" ELSE "fetch"]
    /\ UNCHANGED <<authVars, resp, version, testimonialVars, donationVars, database>>

\* findById of logout and of changePassword, and the two comparePassword of
\* changePassword, which write nothing
Fetch(r) ==
    LET u == users[Presented(r).id]
        loaded == [reqs EXCEPT ![r].pc = "save", ![r].user = {u},
                               ![r].doc = u.refreshTokens, ![r].ver = version,
                               ![r].read = {version}]
    IN
    /\ reqs[r].pc = "fetch"
    /\ reqs' = IF reqs[r].kind = "logout" THEN loaded
               ELSE IF ~ComparePassword(u, Body(r).current) THEN Finished(r, 401)
               ELSE IF ComparePassword(u, Body(r).new) THEN Finished(r, 400)
               ELSE loaded
    /\ UNCHANGED <<authVars, resp, version, testimonialVars, donationVars, database>>

\* the requests that have read the token list and have a write of it ahead
Overtaken(rs, r) ==
    [q \in Requests |->
        IF q # r /\ rs[q].pc \in {"reset", "push", "remove", "add"}
        THEN [rs[q] EXCEPT !.overtaken = TRUE] ELSE rs[q]]

\* the list a logout assigns to user.refreshTokens
LogoutList(r) ==
    IF reqs[r].body = {} THEN <<>> ELSE Without(reqs[r].doc, Body(r))

\* save() of logout: nothing is sent when the assigned list equals the loaded
\* one; otherwise the array is set under the loaded __v
SaveLogout(r) ==
    LET id == Presented(r).id IN
    /\ reqs[r].pc = "save" /\ reqs[r].kind = "logout"
    /\ IF LogoutList(r) = reqs[r].doc
       THEN /\ reqs' = Finished(r, 200)
            /\ UNCHANGED <<users, version>>
       ELSE IF SaveAccepted(reqs[r].ver, version)
       THEN /\ users' = [users EXCEPT ![id].refreshTokens = LogoutList(r)]
            /\ version' = version + 1
            /\ reqs' = IF reqs[r].body = {} THEN Overtaken(Finished(r, 200), r)
                       ELSE Finished(r, 200)
       ELSE /\ reqs' = Finished(r, 500)
            /\ UNCHANGED <<users, version>>
    /\ UNCHANGED <<now, ticks, pendingReg, issued, consumed, failStreak, resp>>
    /\ UNCHANGED <<testimonialVars, donationVars, database>>

\* save() of changePassword: the pre-save hook hashes, then password and
\* passwordChangedAt are set, and the emptied array under the loaded __v when
\* the loaded list was not empty already
SavePassword(r) ==
    LET id == Presented(r).id IN
    /\ reqs[r].pc = "save" /\ reqs[r].kind = "changePassword"
    /\ ticks < MaxTicks
    /\ ticks' = ticks + 1
    /\ \E d \in HashDelays :
         /\ now' = now + d
         /\ IF reqs[r].doc = <<>>
            THEN /\ users' = [users EXCEPT ![id].password = Hash(Body(r).new),
                                           ![id].passwordChangedAt = now + d]
                 /\ reqs' = Finished(r, 200)
                 /\ UNCHANGED version
            ELSE IF SaveAccepted(reqs[r].ver, version)
            THEN /\ users' = [users EXCEPT ![id] = PasswordChanged(@, Body(r).new, now + d)]
                 /\ version' = version + 1
                 /\ reqs' = Overtaken(Finished(r, 200), r)
            ELSE /\ reqs' = Finished(r, 500)
                 /\ UNCHANGED <<users, version>>
    /\ UNCHANGED <<pendingReg, issued, consumed, failStreak, resp>>
    /\ UNCHANGED <<testimonialVars, donationVars, database>>

\* findByIdAndUpdate of deactivateAccount: one update, no __v in it
UpdateActive(r) ==
    /\ reqs[r].pc = "update"
    /\ users' = [users EXCEPT ![Presented(r).id] = Deactivated(@)]
    /\ reqs' = Overtaken(Finished(r, 200), r)
    /\ UNCHANGED <<now, ticks, pendingReg, issued, consumed, failStreak, resp, version>>
    /\ UNCHANGED <<testimonialVars, donationVars, database>>

(***************************************************************************)
(* Testimonials: TestimonialService over the Testimonial model.            *)
(***************************************************************************)
Ratings == {1, 5}
TestimonialIds == 1..MaxTestimonials

\* The fields of a POST /testimonials body that the schema stores; a field
\* the client leaves out has the schema's default (isApproved false,
\* isFeatured false, isVisible true).
TestimonialBodies ==
    [rating : Ratings, isApproved : BOOLEAN, isFeatured : BOOLEAN, isVisible : BOOLEAN]

\* new Testimonial({...testimonialData, metadata})
NewTestimonial(body) ==
    [rating |-> body.rating, isApproved |-> body.isApproved,
     isFeatured |-> body.isFeatured, isVisible |-> body.isVisible]

Stored(ts, id, doc) == [i \in DOMAIN ts \cup {id} |-> IF i = id THEN doc ELSE ts[i]]
Removed(ts, id) == [i \in DOMAIN ts \ {id} |-> ts[i]]

\* ratings holds the status and the data of the rating statistics response
NoRatings == [status |-> 0, data |-> <<>>]

NotFound(op, id) == Response(op, id, NoReq, 404, "Testimonial not found", {})

CreateTestimonial(body) ==
    /\ tCreated < MaxTestimonials
    /\ tCreated' = tCreated + 1
    /\ testimonials' = Stored(testimonials, tCreated + 1, NewTestimonial(body))
    /\ resp' = Response("createTestimonial", tCreated + 1, NoReq, 201, "", {})
    /\ ratings' = NoRatings
    /\ UNCHANGED <<authVars, raceVars, donationVars, database>>

\* findByIdAndUpdate(id, {isApproved: true, ...})
ApproveTestimonial(id) ==
    /\ IF id \notin DOMAIN testimonials
       THEN resp' = NotFound("approve", id) /\ UNCHANGED testimonials
       ELSE /\ testimonials' = [testimonials EXCEPT ![id].isApproved = TRUE]
            /\ resp' = Response("approve", id, NoReq, 200, "", {})
    /\ ratings' = NoRatings
    /\ UNCHANGED <<tCreated, authVars, raceVars, donationVars, database>>

\* findByIdAndUpdate(id, {isApproved: false, isVisible: false, ...})
RejectTestimonial(id) ==
    /\ IF id \notin DOMAIN testimonials
       THEN resp' = NotFound("reject", id) /\ UNCHANGED testimonials
       ELSE /\ testimonials' = [testimonials EXCEPT ![id].isApproved = FALSE,
                                                   ![id].isVisible = FALSE]
            /\ resp' = Response("reject", id, NoReq, 200, "", {})
    /\ ratings' = NoRatings
    /\ UNCHANGED <<tCreated, authVars, raceVars, donationVars, database>>

FeatureVerdict_Accepts(t, featured) == Verdict(200, "")

\* the check featureTestimonial makes on the document the update returned
FeatureVerdict(t, featured) ==
    IF featured /\ ~t.isApproved
    THEN Verdict(400, "Only approved testimonials can be featured")
    ELSE Verdict(200, "")

FeatureOp(featured) == IF featured THEN "feature" ELSE "unfeature"

\* findByIdAndUpdate(id, {isFeatured: featured}, {new: true}), then the check
FeatureTestimonial(id, featured) ==
    /\ IF id \notin DOMAIN testimonials
       THEN resp' = NotFound(FeatureOp(featured), id) /\ UNCHANGED testimonials
       ELSE /\ testimonials' = [testimonials EXCEPT ![id].isFeatured = featured]
            /\ LET v == FeatureVerdict(testimonials'[id], featured)
               IN resp' = Response(FeatureOp(featured), id, NoReq, v.status, v.err, {})
    /\ ratings' = NoRatings
    /\ UNCHANGED <<tCreated, authVars, raceVars, donationVars, database>>

\* findByIdAndUpdate(id, {isVisible: visible})
ToggleVisibility(id, visible) ==
    /\ IF id \notin DOMAIN testimonials
       THEN resp' = NotFound("visibility", id) /\ UNCHANGED testimonials
       ELSE /\ testimonials' = [testimonials EXCEPT ![id].isVisible = visible]
            /\ resp' = Response("visibility", id, NoReq, 200, "", {})
    /\ ratings' = NoRatings
    /\ UNCHANGED <<tCreated, authVars, raceVars, donationVars, database>>

\* findByIdAndDelete(id)
DeleteTestimonial(id) ==
    /\ IF id \notin DOMAIN testimonials
       THEN resp' = NotFound("deleteTestimonial", id) /\ UNCHANGED testimonials
       ELSE /\ testimonials' = Removed(testimonials, id)
            /\ resp' = Response("deleteTestimonial", id, NoReq, 200, "", {})
    /\ ratings' = NoRatings
    /\ UNCHANGED <<tCreated, authVars, raceVars, donationVars, database>>

(***************************************************************************)
(* Rating statistics: Testimonial.getRatingStats.  averageRating, rounded  *)
(* to 2 decimals, is held in hundredths.                                   *)
(***************************************************************************)
Stars == 1..5

\* $match: {isApproved: true, isVisible: true}
Public_AnyVisible(t) == t.isVisible

Public(t) == t.isApproved /\ t.isVisible

Published(ts) == {id \in DOMAIN ts : Public(ts[id])}

RECURSIVE SumRatings(_, _)
SumRatings(ts, S) ==
    IF S = {} THEN 0
    ELSE LET id == CHOOSE x \in S : TRUE IN ts[id].rating + SumRatings(ts, S \ {id})

\* $round: [n / d, 2] in hundredths: a tie goes to the even digit
RoundHalfEven2(n, d) ==
    LET q == (100 * n) \div d
        r == (100 * n) % d
    IN IF 2 * r < d THEN q
       ELSE IF 2 * r > d THEN q + 1
       ELSE IF q % 2 = 0 THEN q ELSE q + 1

\* $size of the $filter of the pushed ratings
RatingCounts(ts) == [s \in Stars |-> Cardinality({id \in Published(ts) : ts[id].rating = s})]

RatingStats(ts) ==
    IF Published(ts) = {}
    THEN [totalReviews |-> 0, averageRating |-> 0, ratingCounts |-> [s \in Stars |-> 0]]
    ELSE [totalReviews |-> Cardinality(Published(ts)),
          averageRating |-> RoundHalfEven2(SumRatings(ts, Published(ts)),
                                           Cardinality(Published(ts))),
          ratingCounts |-> RatingCounts(ts)]

\* the testimonials of the specification's rating example, all published
ExampleTestimonials ==
    [id \in 1..4 |-> [rating |-> <<5, 5, 4, 3>>[id], isApproved |-> TRUE,
                      isFeatured |-> FALSE, isVisible |-> TRUE]]

\* GET /testimonials/stats/ratings
GetRatingStats ==
    /\ ratings' = [status |-> 200, data |-> RatingStats(testimonials)]
    /\ resp' = Idle
    /\ UNCHANGED <<testimonials, tCreated, authVars, raceVars, donationVars, database>>

(***************************************************************************)
(* Donations: DonationService over the Donation model.                     *)
(***************************************************************************)
DonorEmails == {"a@x.io", "b@x.io"}
Amounts == {50, 100}
Statuses == {"pending", "completed", "failed", "refunded"}
PaymentMethods == {"credit_card", "paypal"}
DonationIds == 1..(MaxDonations + 1)

\* The fields of a POST /donations body that matter here; a body without
\* isAnonymous or status gets the schema's defaults (false, "pending").
DonationBodies ==
    [donorEmail : DonorEmails, amount : Amounts, isAnonymous : BOOLEAN, status : Statuses,
     paymentMethod : {"credit_card"}]

\* The bodies of the statistics runs: one public donor, either payment method.
StatsBodies ==
    [donorEmail : {"a@x.io"}, amount : Amounts, isAnonymous : {FALSE},
     status : {"pending", "completed"}, paymentMethod : PaymentMethods]

\* new Donation({...donationData, metadata}); _id and createdAt grow with the
\* position in the collection
NewDonation(body, t) ==
    [donorEmail |-> ToLowerCase(body.donorEmail), amount |-> body.amount,
     isAnonymous |-> body.isAnonymous, status |-> body.status,
     paymentMethod |-> body.paymentMethod, createdAt |-> t]

\* the collection of the specification's leaderboard example
ExampleDonations ==
    << [donorEmail |-> "a@x.io", amount |-> 50, isAnonymous |-> FALSE, status |-> "completed",
        paymentMethod |-> "credit_card", createdAt |-> 0],
       [donorEmail |-> "b@x.io", amount |-> 100, isAnonymous |-> FALSE, status |-> "pending",
        paymentMethod |-> "credit_card", createdAt |-> 0],
       [donorEmail |-> "c@x.io", amount |-> 30, isAnonymous |-> TRUE, status |-> "completed",
        paymentMethod |-> "credit_card", createdAt |-> 0] >>

StartDonations == {<<>>, ExampleDonations}

\* board holds the query, the status and the list of the leaderboard response
NoBoard == [query |-> {}, status |-> 0, list |-> <<>>]

\* stats holds the status and the data of the statistics response
NoStats == [status |-> 0, data |-> <<>>]

CreateDonation(body) ==
    /\ Len(donations) < MaxDonations
    /\ donations' = Append(donations, NewDonation(body, now))
    /\ resp' = Response("createDonation", Len(donations) + 1, NoReq, 201, "", {})
    /\ board' = NoBoard
    /\ stats' = NoStats
    /\ UNCHANGED <<authVars, raceVars, testimonialVars, database>>

\* findByIdAndUpdate(donationId, {status, ...})
UpdateDonationStatus(id, status) ==
    /\ IF id \notin DOMAIN donations
       THEN /\ resp' = Response("updateDonationStatus", id, NoReq, 404, "Donation not found", {})
            /\ UNCHANGED donations
       ELSE /\ donations' = [donations EXCEPT ![id].status = status]
            /\ resp' = Response("updateDonationStatus", id, NoReq, 200, "", {})
    /\ board' = NoBoard
    /\ stats' = NoStats
    /\ UNCHANGED <<authVars, raceVars, testimonialVars, database>>

\* $match: {status: 'completed', isAnonymous: false}
Matches_AnyDonor(d) == d.status = "completed"

Matches(d) == d.status = "completed" /\ d.isAnonymous = FALSE

Matched(ds) == {i \in DOMAIN ds : Matches(ds[i])}

RECURSIVE SumAmounts(_, _)
SumAmounts(ds, S) ==
    IF S = {} THEN 0
    ELSE LET i == CHOOSE x \in S : TRUE IN ds[i].amount + SumAmounts(ds, S \ {i})

Latest(S) == CHOOSE x \in S : \A y \in S : y <= x

\* $group by donorEmail: $sum amount, $sum 1, $max createdAt
Group(ds, e) == {i \in Matched(ds) : ds[i].donorEmail = e}

Grouped(ds) ==
    {[donorEmail |-> e,
      totalAmount |-> SumAmounts(ds, Group(ds, e)),
      donationCount |-> Cardinality(Group(ds, e)),
      lastDonation |-> Latest(Group(ds, e))] : e \in {ds[i].donorEmail : i \in Matched(ds)}}

Orders(G) == {s \in [1..Cardinality(G) -> G] : \A i, j \in DOMAIN s : i < j => s[i] # s[j]}

Sorted_AnyOrder(G) == Orders(G)

\* $sort: {totalAmount: -1}: the order of equal totals is the server's choice
Sorted(G) ==
    {s \in Orders(G) : \A i, j \in DOMAIN s : i < j => s[i].totalAmount >= s[j].totalAmount}

\* $limit
Limited(s, limit) == [i \in 1..(IF limit < Len(s) THEN limit ELSE Len(s)) |-> s[i]]

Leaderboards(ds, limit) == {Limited(s, limit) : s \in Sorted(Grouped(ds))}

\* parseInt(req.query.limit) || 10, for a query that is absent ({}) or a number
ParseLimit(q) == IF q = {} \/ q = {0} THEN DefaultLimit ELSE CHOOSE n \in q : TRUE

LimitQueries == {{}, {0}, {1}, {10}, {-1}}

\* GET /donations/leaderboard; the aggregation fails on a $limit that is not positive
GetLeaderboard(q) ==
    /\ IF ParseLimit(q) < 1
       THEN board' = [query |-> q, status |-> 500, list |-> <<>>]
       ELSE \E l \in Leaderboards(donations, ParseLimit(q)) :
              board' = [query |-> q, status |-> 200, list |-> l]
    /\ resp' = Idle
    /\ stats' = NoStats
    /\ UNCHANGED <<donations, authVars, raceVars, testimonialVars, database>>

(***************************************************************************)
(* Donation statistics: Donation.getStats and DonationService              *)
(* .getDonationStats, for a request without startDate / endDate.  An exact *)
(* quotient is the pair <<numerator, denominator>> in lowest terms; a     *)
(* value rounded to 2 decimals is held in hundredths.                      *)
(***************************************************************************)
RECURSIVE Gcd(_, _)
Gcd(a, b) == IF b = 0 THEN a ELSE Gcd(b, a % b)

Ratio(n, d) == <<n \div Gcd(n, d), d \div Gcd(n, d)>>

\* Math.round(n / d * 100) / 100, in hundredths
Round2(n, d) == (200 * n + d) \div (2 * d)

\* $match: {status: 'completed'}
Completed(ds) == {i \in DOMAIN ds : ds[i].status = "completed"}

MaxAmount(ds, S) == CHOOSE a \in {ds[i].amount : i \in S} : \A i \in S : ds[i].amount <= a
MinAmount(ds, S) == CHOOSE a \in {ds[i].amount : i \in S} : \A i \in S : a <= ds[i].amount

\* the record returned when the aggregation has no group
ZeroStats ==
    [totalAmount |-> 0, totalDonations |-> 0, averageAmount |-> Ratio(0, 1),
     maxAmount |-> 0, minAmount |-> 0]

\* $group with _id: null yields no document over an empty $match
GetStats_NoDefault(ds) ==
    [totalAmount |-> SumAmounts(ds, Completed(ds)),
     totalDonations |-> Cardinality(Completed(ds)),
     averageAmount |-> Ratio(SumAmounts(ds, Completed(ds)), Cardinality(Completed(ds)) + 1),
     maxAmount |-> -1, minAmount |-> -1]

GetStats(ds) ==
    IF Completed(ds) = {} THEN ZeroStats
    ELSE [totalAmount |-> SumAmounts(ds, Completed(ds)),
          totalDonations |-> Cardinality(Completed(ds)),
          averageAmount |-> Ratio(SumAmounts(ds, Completed(ds)), Cardinality(Completed(ds))),
          maxAmount |-> MaxAmount(ds, Completed(ds)),
          minAmount |-> MinAmount(ds, Completed(ds))]

\* $year / $month of createdAt (UTC), for a time within 24 days of the epoch:
\* the instants of the statistics runs lie on both sides of 1 January 1970.
YearMonth(t) == IF t < 0 THEN <<1969, 12>> ELSE <<1970, 1>>

InMonth(ds, ym) == {i \in Completed(ds) : YearMonth(ds[i].createdAt) = ym}

\* $group by year and month, then the map over the result
TrendGroups(ds) ==
    {[year |-> ym[1], month |-> ym[2],
      totalAmount |-> SumAmounts(ds, InMonth(ds, ym)),
      totalDonations |-> Cardinality(InMonth(ds, ym)),
      averageAmount |-> Round2(SumAmounts(ds, InMonth(ds, ym)), Cardinality(InMonth(ds, ym)))]
        : ym \in {YearMonth(ds[i].createdAt) : i \in Completed(ds)}}

Later(g, h) == g.year > h.year \/ (g.year = h.year /\ g.month > h.month)

\* $sort: {'_id.year': -1, '_id.month': -1}, $limit: 12
Trends(ds) ==
    {Limited(s, 12) : s \in {o \in Orders(TrendGroups(ds)) :
                               \A i, j \in DOMAIN o : i < j => Later(o[i], o[j])}}

PaidBy(ds, m) == {i \in Completed(ds) : ds[i].paymentMethod = m}

\* $group by paymentMethod
MethodGroups(ds) ==
    {[method |-> m, count |-> Cardinality(PaidBy(ds, m)),
      totalAmount |-> SumAmounts(ds, PaidBy(ds, m))]
        : m \in {ds[i].paymentMethod : i \in Completed(ds)}}

\* the number that stands for Infinity, the quotient of a positive amount by 0
Infinity == 2147483647

\* Math.round(pm.totalAmount / basicStats.totalAmount * 100 * 100) / 100
Percentage(amount, total) ==
    IF total = 0 THEN Infinity ELSE Round2(100 * amount, total)

WithPercentage(g, overall) ==
    [method |-> g.method, count |-> g.count, totalAmount |-> g.totalAmount,
     percentage |-> Percentage(g.totalAmount, overall.totalAmount)]

\* $sort: {totalAmount: -1}, then the map over the result
PaymentMethodStats(ds) ==
    {[i \in DOMAIN s |-> WithPercentage(s[i], GetStats(ds))] : s \in Sorted(MethodGroups(ds))}

\* GET /donations/stats
GetDonationStats ==
    /\ \E t \in Trends(donations), pm \in PaymentMethodStats(donations) :
         stats' = [status |-> 200,
                   data |-> [overall |-> GetStats(donations), trends |-> t,
                             paymentMethods |-> pm]]
    /\ resp' = Idle
    /\ board' = NoBoard
    /\ UNCHANGED <<donations, authVars, raceVars, testimonialVars, database>>

(***************************************************************************)
(* Errors: the error classes of utils/errorHandler.js and the global error *)
(* handler.  An error is a record of the properties the handler reads; a   *)
(* message is a sequence of its parts; statusCode 0 and code 0 stand for   *)
(* undefined.  ownName tells whether name is an own enumerable property of *)
(* the object, which the copy {...err} keeps: the classes of this file set *)
(* this.name; for an error of a library either can be the case.            *)
(***************************************************************************)
AppError(message, statusCode, errors) ==
    [name |-> "Error", ownName |-> FALSE, message |-> message, statusCode |-> statusCode,
     isOperational |-> TRUE, errors |-> errors, code |-> 0, detail |-> <<>>]

Named(e, name) == [e EXCEPT !.name = name, !.ownName = TRUE]

ValidationError(message, errors) == Named(AppError(message, 400, errors), "ValidationError")
AuthError(message) == Named(AppError(message, 401, <<>>), "AuthError")
AuthorizationError(message) == Named(AppError(message, 403, <<>>), "AuthorizationError")
NotFoundError(resource) == Named(AppError(resource \o <<" not found">>, 404, <<>>), "NotFoundError")
ConflictError(message) == Named(AppError(message, 409, <<>>), "ConflictError")

\* an error no class of the application made: a library's or the runtime's
Foreign(name, ownName, message, errors, code, detail) ==
    [name |-> name, ownName |-> ownName, message |-> message, statusCode |-> 0,
     isOperational |-> FALSE, errors |-> errors, code |-> code, detail |-> detail]

Messages ==
    {<<"Current password is incorrect">>, <<"Email is already registered">>,
     <<"New password must be different from current password">>}

FieldErrors == {<<>>, <<[path |-> "email", message |-> "Invalid email", value |-> "x"]>>}

OperationalErrors ==
    {AppError(m, c, <<>>) : m \in Messages, c \in {400, 423, 500}}
    \cup {ValidationError(m, fe) : m \in Messages, fe \in FieldErrors}
    \cup {AuthError(m) : m \in Messages}
    \cup {AuthorizationError(m) : m \in Messages}
    \cup {NotFoundError(r) : r \in {<<"User">>, <<"Donation">>, <<"Testimonial">>}}
    \cup {ConflictError(m) : m \in Messages}

ForeignErrors ==
    {Foreign("CastError", own, <<"Cast to ObjectId failed">>, <<>>, 0, <<"_id", "x">>)
        : own \in BOOLEAN}
    \cup {Foreign("MongoServerError", own, <<"E11000 duplicate key error">>, <<>>, 11000,
                  <<"email", "a@x.io">>) : own \in BOOLEAN}
    \cup {Foreign("ValidationError", own, <<"Donation validation failed">>,
                  <<[path |-> "amount", message |-> "Amount is required", value |-> ""]>>,
                  0, <<>>) : own \in BOOLEAN}
    \cup {Foreign(n, own, <<"jwt malformed">>, <<>>, 0, <<>>)
            : n \in {"JsonWebTokenError", "TokenExpiredError"}, own \in BOOLEAN}
    \cup {Foreign("TypeError", FALSE, <<"Cannot read properties of undefined">>, <<>>, 0, <<>>)}

Errors == OperationalErrors \cup ForeignErrors

\* process.env.NODE_ENV
Environments == {"development", "production", "test"}

\* err.statusCode = err.statusCode || 500
WithStatus(err) == [err EXCEPT !.statusCode = IF @ = 0 THEN 500 ELSE @]

\* let error = {...err}; error.message = err.message
Copied(err) == [err EXCEPT !.name = IF err.ownName THEN @ ELSE ""]

HandleCastErrorDB(err) ==
    AppError(<<"Invalid ", err.detail[1], ": ", err.detail[2]>>, 400, <<>>)

HandleDuplicateFieldsDB(err) ==
    ConflictError(<<err.detail[1], " '", err.detail[2], "' already exists">>)

HandleValidationErrorDB(err) ==
    ValidationError(<<"Invalid input data">>,
                    [i \in DOMAIN err.errors |->
                        [field |-> err.errors[i].path, message |-> err.errors[i].message,
                         value |-> err.errors[i].value]])

HandleJWTError == AuthError(<<"Invalid token. Please log in again">>)
HandleJWTExpiredError == AuthError(<<"Token has expired. Please log in again">>)

\* the chain of ifs of globalErrorHandler, each on the result of the one before
Converted(err) ==
    LET e1 == IF err.name = "CastError" THEN HandleCastErrorDB(err) ELSE err
        e2 == IF e1.code = 11000 THEN HandleDuplicateFieldsDB(e1) ELSE e1
        e3 == IF e2.name = "ValidationError" THEN HandleValidationErrorDB(e2) ELSE e2
        e4 == IF e3.name = "JsonWebTokenError" THEN HandleJWTError ELSE e3
    IN IF e4.name = "TokenExpiredError" THEN HandleJWTExpiredError ELSE e4

\* the response: its status and the message, errors, name and stack of its body
\* (name "" and stack FALSE: not in the body)
SendErrorDev(err) ==
    [status |-> err.statusCode, message |-> err.message, errors |-> err.errors,
     name |-> err.name, stack |-> TRUE]

SendErrorProd(err) ==
    IF err.isOperational
    THEN [status |-> err.statusCode, message |-> err.message, errors |-> err.errors,
          name |-> "", stack |-> FALSE]
    ELSE [status |-> 500, message |-> <<"Something went wrong">>, errors |-> <<>>,
          name |-> "", stack |-> FALSE]

GlobalErrorHandler(err, env) ==
    IF env = "development" THEN SendErrorDev(WithStatus(err))
    ELSE SendErrorProd(Converted(Copied(WithStatus(err))))

\* a handler passes err to next(); resp holds the error, the environment and
\* the response
HandleError(err, env) ==
    /\ resp' = [op |-> "error", thrown |-> err, env |-> env,
                response |-> GlobalErrorHandler(err, env)]
    /\ UNCHANGED <<authVars, raceVars, testimonialVars, donationVars, database>>

(***************************************************************************)
(* GET /donations/stats served concurrently with writes of donations: the  *)
(* three aggregations of getDonationStats are separate queries, each over  *)
(* the collection as it is when it runs.                                   *)
(***************************************************************************)
ReceiveStats(r) ==
    /\ reqs[r].pc = "idle"
    /\ reqs' = [reqs EXCEPT ![r].pc = "overall", ![r].kind = "stats"]
    /\ UNCHANGED <<authVars, resp, version, testimonialVars, donationVars, database>>

\* const basicStats = await Donation.getStats()
QueryOverall(r) ==
    /\ reqs[r].pc = "overall"
    /\ reqs' = [reqs EXCEPT ![r].pc = "trends",
                            ![r].part = [overall |-> GetStats(donations)]]
    /\ UNCHANGED <<authVars, resp, version, testimonialVars, donationVars, database>>

\* const trends = await Donation.aggregate(...)
QueryTrends(r) ==
    /\ reqs[r].pc = "trends"
    /\ \E t \in Trends(donations) :
         reqs' = [reqs EXCEPT ![r].pc = "methods",
                              ![r].part = [overall |-> reqs[r].part.overall, trends |-> t]]
    /\ UNCHANGED <<authVars, resp, version, testimonialVars, donationVars, database>>

\* const paymentMethodStats = await Donation.aggregate(...), then the response
QueryMethods(r) ==
    /\ reqs[r].pc = "methods"
    /\ \E s \in Sorted(MethodGroups(donations)) :
         stats' = [status |-> 200,
                   data |-> [overall |-> reqs[r].part.overall,
                             trends |-> reqs[r].part.trends,
                             paymentMethods |->
                                [i \in DOMAIN s |-> WithPercentage(s[i], reqs[r].part.overall)]]]
    /\ reqs' = Finished(r, 200)
    /\ UNCHANGED <<authVars, resp, version, testimonialVars, donations, board, database>>

(***************************************************************************)
(* The database connection (config/database.js).  The module exports one   *)
(* Database object; connect() is an async method, so a call is a sequence  *)
(* of steps: the attempt (mongoose.connect pending), its outcome, and the  *)
(* timer before the retry.  The driver's events reach the listeners that   *)
(* setupEventListeners registered at any moment, also while a call waits.  *)
(* Delays are held in half-milliseconds so that retryDelay * 1.5 stays an  *)
(* integer.                                                                *)
(***************************************************************************)
MaxRetries == 5
MaxCalls == 2
DefaultRetryDelay == 2 * 5000

\* constructor(): the state of the exported singleton, with the history of
\* the call in progress (calls, from, attempts, waits, outcome) and the
\* driver's link (none: never opened or closed, up, lost)
NewDatabase ==
    [isConnected |-> FALSE, connection |-> FALSE, retryAttempts |-> 0,
     listeners |-> 0, link |-> "none", pc |-> "idle", retryDelay |-> 0,
     calls |-> 0, from |-> 0, attempts |-> 0, waits |-> <<>>, outcome |-> ""]

\* retryDelay * 1.5
Backoff(retryDelay) == (retryDelay * 3) \div 2

\* the delay before the k-th retry of a call made with the default delay
RECURSIVE DelayOf(_)
DelayOf(k) == IF k = 1 THEN DefaultRetryDelay ELSE Backoff(DelayOf(k - 1))

\* the head of connect(retryDelay): return at once when isConnected, else
\* register the listeners and start mongoose.connect
Enter(db, retryDelay) ==
    IF db.isConnected
    THEN [db EXCEPT !.pc = "idle", !.outcome = "returned"]
    ELSE [db EXCEPT !.listeners = @ + 1, !.pc = "attempt", !.retryDelay = retryDelay]

\* the test of the catch block, after retryAttempts++
MayRetry(db) == db.retryAttempts < MaxRetries

\* connect(): a caller invokes the method with the default delay
Connect ==
    /\ database.pc = "idle"
    /\ database.calls < MaxCalls
    /\ database' = Enter([database EXCEPT !.calls = @ + 1,
                                          !.from = database.retryAttempts,
                                          !.attempts = 0,
                                          !.waits = <<>>,
                                          !.outcome = ""],
                         DefaultRetryDelay)
    /\ UNCHANGED <<authVars, resp, raceVars, testimonialVars, donationVars>>

\* mongoose.connect resolves: the driver emits 'connected', then the lines
\* after the await run
ConnectSucceeds ==
    /\ database.pc = "attempt"
    /\ database' = [database EXCEPT !.link = "up",
                                    !.connection = TRUE,
                                    !.isConnected = TRUE,
                                    !.retryAttempts = 0,
                                    !.attempts = @ + 1,
                                    !.pc = "idle",
                                    !.outcome = "returned"]
    /\ UNCHANGED <<authVars, resp, raceVars, testimonialVars, donationVars>>

\* mongoose.connect rejects: the driver emits 'error', then the catch block
\* runs.  An open link answers the call, so only a closed or lost one fails.
ConnectFails ==
    /\ database.pc = "attempt"
    /\ database.link # "up"
    /\ LET failed == [database EXCEPT !.isConnected = FALSE,
                                      !.retryAttempts = @ + 1,
                                      !.attempts = @ + 1]
       IN  database' = IF MayRetry(failed)
                       THEN [failed EXCEPT !.pc = "wait"]
                       ELSE [failed EXCEPT !.pc = "idle", !.outcome = "thrown"]
    /\ UNCHANGED <<authVars, resp, raceVars, testimonialVars, donationVars>>

\* the timer of the catch block fires: return this.connect(retryDelay * 1.5)
Retry ==
    /\ database.pc = "wait"
    /\ database' = Enter([database EXCEPT !.waits = Append(@, database.retryDelay)],
                         Backoff(database.retryDelay))
    /\ UNCHANGED <<authVars, resp, raceVars, testimonialVars, donationVars>>

\* 'disconnected': the driver loses an open link
Disconnected ==
    /\ database.link = "up"
    /\ database' = [database EXCEPT !.link = "lost", !.isConnected = FALSE]
    /\ UNCHANGED <<authVars, resp, raceVars, testimonialVars, donationVars>>

\* 'reconnected': the driver's monitor finds the server again
Reconnected ==
    /\ database.link = "lost"
    /\ database' = [database EXCEPT !.link = "up", !.isConnected = TRUE]
    /\ UNCHANGED <<authVars, resp, raceVars, testimonialVars, donationVars>>

\* 'error' on an open link
ConnectionError ==
    /\ database.link = "up"
    /\ database.isConnected
    /\ database' = [database EXCEPT !.isConnected = FALSE]
    /\ UNCHANGED <<authVars, resp, raceVars, testimonialVars, donationVars>>

\* disconnect(): closes the connection when isConnected
Disconnect ==
    /\ database.isConnected
    /\ database' = [database EXCEPT !.link = "none", !.isConnected = FALSE]
    /\ UNCHANGED <<authVars, resp, raceVars, testimonialVars, donationVars>>

AuthInit(times) ==
    /\ now \in times
    /\ ticks = 0
    /\ users = <<>>
    /\ pendingReg = {}
    /\ issued = {}
    /\ resp = Idle
    /\ consumed = {}
    /\ failStreak = <<>>
    /\ reqs = [r \in Requests |-> NoRequest]
    /\ version = 0
    /\ database = NewDatabase

TestimonialInit == testimonials = <<>> /\ tCreated = 0 /\ ratings = NoRatings

DonationInit(collections) ==
    donations \in collections /\ board = NoBoard /\ stats = NoStats

Init == AuthInit(StartTimes) /\ TestimonialInit /\ DonationInit({<<>>})

\* one account at a time is being registered
OneAccount == users = <<>> /\ pendingReg = {}

RefreshTokens == {t \in issued : t.typ = "refresh"}

(***************************************************************************)
(* Spec: login and lockout of one account.                                 *)
(***************************************************************************)
Next ==
    \/ \E e \in Emails, p \in Passwords : OneAccount /\ ValidateRegistration(e, p)
    \/ \E r \in pendingReg : Register(r)
    \/ \E e \in Emails, p \in Passwords : Login(e, p)
    \/ \E a \in issued : DeactivateAccount(a)
    \/ \E d \in ClockSteps : Advance(d)

Spec == Init /\ [][Next]_vars

(***************************************************************************)
(* SpecRegister: registrations of up to MaxUsers accounts, each validated  *)
(* before it is served.                                                    *)
(***************************************************************************)
NextRegister ==
    \/ \E e \in Emails, p \in Passwords : ValidateRegistration(e, p)
    \/ \E r \in pendingReg : Register(r)
    \/ \E d \in ClockSteps : Advance(d)

SpecRegister == Init /\ [][NextRegister]_vars

(***************************************************************************)
(* SpecSession: every auth operation on the tokens of one account.         *)
(***************************************************************************)
NextSession ==
    \/ \E e \in Emails, p \in Passwords : OneAccount /\ ValidateRegistration(e, p)
    \/ \E r \in pendingReg : Register(r)
    \/ \E e \in Emails, p \in Passwords : Login(e, p)
    \/ \E tok \in issued : RefreshToken(tok)
    \/ \E a \in issued : Verify(a)
    \/ \E a \in issued, rts \in {{}} \cup {{t} : t \in RefreshTokens} : Logout(a, rts)
    \/ \E a \in issued, c \in Passwords, n \in Passwords : ChangePassword(a, c, n)
    \/ \E a \in issued : DeactivateAccount(a)
    \/ \E d \in ClockSteps : Advance(d)

SpecSession == Init /\ [][NextSession]_vars

(***************************************************************************)
(* SpecPassword: password changes on one account.                          *)
(***************************************************************************)
NextPassword ==
    \/ \E e \in Emails, p \in Passwords : OneAccount /\ ValidateRegistration(e, p)
    \/ \E r \in pendingReg : Register(r)
    \/ \E a \in issued, c \in Passwords, n \in Passwords : ChangePassword(a, c, n)
    \/ \E d \in ClockSteps : Advance(d)

SpecPassword == Init /\ [][NextPassword]_vars

(***************************************************************************)
(* SpecToken: the tokens of one account presented to either verification,  *)
(* over a time longer than the refresh lifetime.                           *)
(***************************************************************************)
\* one second, and one second more than the refresh lifetime
LifetimeSteps == {1000, (RefreshTtlSec + 1) * 1000}

NextToken ==
    \/ \E e \in LowerCaseEmails : OneAccount /\ ValidateRegistration(e, "pw1")
    \/ \E r \in pendingReg : Register(r)
    \/ \E e \in LowerCaseEmails : Login(e, "pw1")
    \/ \E tok \in issued : RefreshToken(tok)
    \/ \E a \in issued : Verify(a)
    \/ \E d \in LifetimeSteps : Advance(d)

SpecToken == Init /\ [][NextToken]_vars

(***************************************************************************)
(* SpecLogout: logins with the right password and logouts on up to         *)
(* MaxUsers accounts.                                                      *)
(***************************************************************************)
NextLogout ==
    \/ \E e \in LowerCaseEmails : ValidateRegistration(e, "pw1")
    \/ \E r \in pendingReg : Register(r)
    \/ \E e \in LowerCaseEmails : Login(e, "pw1")
    \/ \E a \in issued, rts \in {{}} \cup {{t} : t \in RefreshTokens} : Logout(a, rts)
    \/ Advance(1000)

\* the clock starts so that the second registration ends in a later second
\* than the first
InitLogout == AuthInit({1998, 1999}) /\ TestimonialInit /\ DonationInit({<<>>})

SpecLogout == InitLogout /\ [][NextLogout]_vars

(***************************************************************************)
(* SpecAccount: every auth operation on one account, one address, from     *)
(* registration to deactivation.                                           *)
(***************************************************************************)
NextAccount ==
    \/ OneAccount /\ ValidateRegistration("a@x.io", "pw1")
    \/ \E r \in pendingReg : Register(r)
    \/ \E p \in Passwords : Login("a@x.io", p)
    \/ \E tok \in issued : RefreshToken(tok)
    \/ \E a \in issued : Verify(a)
    \/ \E a \in issued, rts \in {{}} \cup {{t} : t \in RefreshTokens} : Logout(a, rts)
    \/ \E a \in issued : ChangePassword(a, "pw1", "pw2")
    \/ \E a \in issued : DeactivateAccount(a)
    \/ Advance(1000)

SpecAccount == Init /\ [][NextAccount]_vars

(***************************************************************************)
(* SpecLock: logins with a wrong password on one account, some served one  *)
(* after the other and up to MaxRequests served concurrently.              *)
(***************************************************************************)
ServeLogin(r) == FindUser(r) \/ FailLogin(r) \/ ResetLogin(r) \/ PushLogin(r)

NextLock ==
    \/ OneAccount /\ ValidateRegistration("a@x.io", "pw1")
    \/ \E r \in pendingReg : Register(r)
    \/ Login("a@x.io", "pw2")
    \/ \E r \in Requests : ReceiveLogin(r, "a@x.io", "pw2")
    \/ \E r \in Requests : FindUser(r)
    \/ \E r \in Requests : FailLogin(r)
    \/ \E d \in ClockSteps : Advance(d)

SpecLock == Init /\ [][NextLock]_vars /\ \A r \in Requests : WF_vars(ServeLogin(r))

(***************************************************************************)
(* SpecTestimonial: moderation of up to MaxTestimonials testimonials.      *)
(***************************************************************************)
InitTestimonial == AuthInit({0}) /\ TestimonialInit /\ DonationInit({<<>>})

NextTestimonial ==
    \/ \E body \in TestimonialBodies : CreateTestimonial(body)
    \/ \E id \in TestimonialIds : ApproveTestimonial(id)
    \/ \E id \in TestimonialIds : RejectTestimonial(id)
    \/ \E id \in TestimonialIds, featured \in BOOLEAN : FeatureTestimonial(id, featured)
    \/ \E id \in TestimonialIds, visible \in BOOLEAN : ToggleVisibility(id, visible)
    \/ \E id \in TestimonialIds : DeleteTestimonial(id)

SpecTestimonial == InitTestimonial /\ [][NextTestimonial]_vars

(***************************************************************************)
(* SpecRating: moderation of new testimonials, or of those of the rating   *)
(* example, and the rating statistics.                                     *)
(***************************************************************************)
InitRating ==
    /\ AuthInit({0})
    /\ DonationInit({<<>>})
    /\ ratings = NoRatings
    /\ \/ testimonials = <<>> /\ tCreated = 0
       \/ testimonials = ExampleTestimonials /\ tCreated = 4

NextRating ==
    \/ \E body \in TestimonialBodies : CreateTestimonial(body)
    \/ \E id \in DOMAIN testimonials : ApproveTestimonial(id)
    \/ \E id \in DOMAIN testimonials : RejectTestimonial(id)
    \/ \E id \in DOMAIN testimonials, visible \in BOOLEAN : ToggleVisibility(id, visible)
    \/ \E id \in DOMAIN testimonials : DeleteTestimonial(id)
    \/ GetRatingStats

SpecRating == InitRating /\ [][NextRating]_vars

(***************************************************************************)
(* SpecDonation: donations created and moved between statuses, and the     *)
(* leaderboard read, from an empty collection or the example's.            *)
(***************************************************************************)
InitDonation == AuthInit({0}) /\ TestimonialInit /\ DonationInit(StartDonations)

NextDonation ==
    \/ \E body \in DonationBodies : CreateDonation(body)
    \/ \E id \in DonationIds, status \in Statuses : UpdateDonationStatus(id, status)
    \/ \E q \in LimitQueries : GetLeaderboard(q)
    \/ GetDonationStats

SpecDonation == InitDonation /\ [][NextDonation]_vars

(***************************************************************************)
(* SpecStats: donations of one donor around a month's end, and the         *)
(* statistics.                                                             *)
(***************************************************************************)
NextStats ==
    \/ \E body \in StatsBodies : CreateDonation(body)
    \/ \E id \in DonationIds, status \in {"pending", "completed"} : UpdateDonationStatus(id, status)
    \/ GetDonationStats
    \/ \E d \in ClockSteps : Advance(d)

InitStats == AuthInit({-1000}) /\ TestimonialInit /\ DonationInit({<<>>})

SpecStats == InitStats /\ [][NextStats]_vars

(***************************************************************************)
(* SpecError: errors passed to the global error handler.                   *)
(***************************************************************************)
NextError == \E err \in Errors, env \in Environments : HandleError(err, env)

SpecError == Init /\ [][NextError]_vars

(***************************************************************************)
(* SpecRace: refresh requests on one account served concurrently; the      *)
(* event loop runs every request that can take a step.                     *)
(***************************************************************************)
Serve(r) == Validate(r) \/ Load(r) \/ Remove(r) \/ Add(r)

NextRace ==
    \/ \E e \in Emails, p \in Passwords : OneAccount /\ ValidateRegistration(e, p)
    \/ \E r \in pendingReg : Register(r)
    \/ \E d \in ClockSteps : Advance(d)
    \/ \E r \in Requests, tok \in issued : Receive(r, tok)
    \/ \E r \in Requests : Validate(r)
    \/ \E r \in Requests : Load(r)
    \/ \E r \in Requests : Remove(r)
    \/ \E r \in Requests : Add(r)

SpecRace == Init /\ [][NextRace]_vars /\ \A r \in Requests : WF_vars(Serve(r))

(***************************************************************************)
(* SpecClear: on one account, a login or a refresh served concurrently     *)
(* with a password change, a logout from all devices or a deactivation.    *)
(***************************************************************************)
\* the body of POST /auth/change-password
PasswordBodies == {[current |-> "pw1", new |-> "pw2"]}

ServeAuthed(r) == Admit(r) \/ Fetch(r) \/ SaveLogout(r) \/ SavePassword(r) \/ UpdateActive(r)

NextClear ==
    \/ OneAccount /\ ValidateRegistration("a@x.io", "pw1")
    \/ \E r \in pendingReg : Register(r)
    \/ \E r \in Requests : ReceiveLogin(r, "a@x.io", "pw1")
    \/ \E r \in Requests : FindUser(r)
    \/ \E r \in Requests : ResetLogin(r)
    \/ \E r \in Requests : PushLogin(r)
    \/ \E r \in Requests, tok \in issued : Receive(r, tok)
    \/ \E r \in Requests : Validate(r)
    \/ \E r \in Requests : Load(r)
    \/ \E r \in Requests : Remove(r)
    \/ \E r \in Requests : Add(r)
    \/ \E r \in Requests, a \in issued : ReceiveAuthed(r, "logout", a, {})
    \/ \E r \in Requests, a \in issued, b \in PasswordBodies :
          ReceiveAuthed(r, "changePassword", a, {b})
    \/ \E r \in Requests, a \in issued : ReceiveAuthed(r, "deactivate", a, {})
    \/ \E r \in Requests : Admit(r)
    \/ \E r \in Requests : Fetch(r)
    \/ \E r \in Requests : SaveLogout(r)
    \/ \E r \in Requests : SavePassword(r)
    \/ \E r \in Requests : UpdateActive(r)

SpecClear ==
    Init /\ [][NextClear]_vars
         /\ \A r \in Requests : WF_vars(Serve(r) \/ ServeLogin(r) \/ ServeAuthed(r))

(***************************************************************************)
(* SpecTokens: logins, refreshes and logouts with one refresh token served *)
(* concurrently on one account.                                            *)
(***************************************************************************)
NextTokens ==
    \/ OneAccount /\ ValidateRegistration("a@x.io", "pw1")
    \/ \E r \in pendingReg : Register(r)
    \/ \E r \in Requests : ReceiveLogin(r, "a@x.io", "pw1")
    \/ \E r \in Requests : FindUser(r)
    \/ \E r \in Requests : ResetLogin(r)
    \/ \E r \in Requests : PushLogin(r)
    \/ \E r \in Requests, tok \in issued : Receive(r, tok)
    \/ \E r \in Requests : Validate(r)
    \/ \E r \in Requests : Load(r)
    \/ \E r \in Requests : Remove(r)
    \/ \E r \in Requests : Add(r)
    \/ \E r \in Requests, a \in issued, t \in RefreshTokens : ReceiveAuthed(r, "logout", a, {t})
    \/ \E r \in Requests : Admit(r)
    \/ \E r \in Requests : Fetch(r)
    \/ \E r \in Requests : SaveLogout(r)
    \/ Advance(1000)

\* the clock starts so that the registration ends on a whole second
InitTokens == AuthInit({1999}) /\ TestimonialInit /\ DonationInit({<<>>})

SpecTokens ==
    InitTokens /\ [][NextTokens]_vars
               /\ \A r \in Requests : WF_vars(Serve(r) \/ ServeLogin(r) \/ ServeAuthed(r))

(***************************************************************************)
(* SpecReport: statistics requests served while donations are created and  *)
(* change status.                                                          *)
(***************************************************************************)
ServeStats(r) == QueryOverall(r) \/ QueryTrends(r) \/ QueryMethods(r)

\* the bodies of the report runs: one amount, either status and method
ReportBodies == {b \in StatsBodies : b.amount = 50}

NextReport ==
    \/ \E body \in ReportBodies : CreateDonation(body)
    \/ \E id \in DonationIds, status \in {"pending", "completed"} : UpdateDonationStatus(id, status)
    \/ \E r \in Requests : ReceiveStats(r)
    \/ \E r \in Requests : QueryOverall(r)
    \/ \E r \in Requests : QueryTrends(r)
    \/ \E r \in Requests : QueryMethods(r)

SpecReport == InitStats /\ [][NextReport]_vars /\ \A r \in Requests : WF_vars(ServeStats(r))

(***************************************************************************)
(* One account, its logins and the clock around the end of a lock          *)
(* (SpecAttempts): the clock steps reach the instant lockUntil and the     *)
(* millisecond after it.                                                   *)
(***************************************************************************)
LockSteps == {LockMs, LockMs + 1}

NextAttempts ==
    \/ \E p \in Passwords : OneAccount /\ ValidateRegistration("a@x.io", p)
    \/ \E r \in pendingReg : Register(r)
    \/ \E e \in Emails, p \in Passwords : Login(e, p)
    \/ \E a \in issued : DeactivateAccount(a)
    \/ \E d \in LockSteps : Advance(d)

SpecAttempts == Init /\ [][NextAttempts]_vars

(***************************************************************************)
(* The database connection alone (SpecDatabase): callers invoke connect()  *)
(* and disconnect(), the driver answers each attempt and reports the state *)
(* of the link.  An attempt is answered and a timer fires, hence the       *)
(* fairness.                                                               *)
(***************************************************************************)
NextDatabase ==
    \/ Connect
    \/ ConnectSucceeds
    \/ ConnectFails
    \/ Retry
    \/ Disconnected
    \/ Reconnected
    \/ ConnectionError
    \/ Disconnect

SpecDatabase ==
    /\ Init
    /\ [][NextDatabase]_vars
    /\ WF_vars(ConnectSucceeds \/ ConnectFails)
    /\ WF_vars(Retry)

(***************************************************************************)
(* Account lockout (Spec).                                                 *)
(***************************************************************************)
\* a login that found its account
ServedLogin(r) == r.op = "login" /\ r.loaded # {}

\* C1: once 5 consecutive wrong-password logins of an account have completed,
\* every login served for it while now < lockUntil, the right password
\* included, is answered AccountLocked (423) and issues no tokens.
C1_LockedLoginIsAccountLocked ==
    [][(/\ ServedLogin(resp')
        /\ failStreak[resp'.id] >= MaxLoginAttempts
        /\ IsLocked(LoadedDoc(resp'), now))
       => (resp'.status = 423 /\ resp'.tokens = {})]_vars

\* C5: whenever a login succeeds, the stored user has its attempt counter at
\* zero and no lockUntil when the call returns, whatever they were before.
C5_SuccessfulLoginResets ==
    (ServedLogin(resp) /\ resp.status = 200)
        => (users[resp.id].loginAttempts = 0 /\ users[resp.id].lockUntil = {})

\* a login succeeded on an account whose counter stood at the limit and whose
\* lock had run out
C5_Witness ==
    /\ ServedLogin(resp) /\ resp.status = 200
    /\ LoadedDoc(resp).loginAttempts >= MaxLoginAttempts
    /\ LoadedDoc(resp).lockUntil # {}
    /\ users[resp.id].lockUntil = {}

(***************************************************************************)
(* Registration (SpecRegister).                                            *)
(***************************************************************************)
\* C4: a registration whose e-mail equals, up to letter case, that of an
\* existing user is answered Conflict (409), creates no user and issues no
\* tokens.
C4_DuplicateRegisterIsConflict ==
    [][(resp'.op = "register" /\ EmailTaken(users, resp'.req.email))
       => (resp'.status = 409 /\ users' = users /\ resp'.tokens = {})]_vars

(***************************************************************************)
(* Sessions of one account (SpecSession).                                  *)
(***************************************************************************)
\* C2: once RefreshToken(t) has succeeded, every later RefreshToken(t) is
\* answered 401 and changes nothing.
C2_RotatedTokenIsRejected ==
    [][(resp'.op = "refresh" /\ resp'.req.token \subseteq consumed)
       => (resp'.status = 401 /\ users' = users)]_vars

AccessTokensOf(id) == {a \in issued : a.typ = "access" /\ a.id = id}
RefreshTokensOf(id) == {r \in issued : r.typ = "refresh" /\ r.id = id}

PasswordJustChanged == resp.op = "changePassword" /\ resp.status = 200

\* an access token the middleware turns away
Rejected(a) == Authenticate(a, users, now).status # 200

\* C3: when ChangePassword has succeeded, every access token issued to the
\* user before is answered 401 by the middleware, the stored refresh-token
\* list is empty and RefreshToken rejects every refresh token issued before;
\* an access token issued before the change is never accepted again.
C3_ChangePasswordRevokes ==
    /\ [](PasswordJustChanged =>
            /\ \A a \in AccessTokensOf(resp.id) : Authenticate(a, users, now).status = 401
            /\ users[resp.id].refreshTokens = <<>>
            /\ \A r \in RefreshTokensOf(resp.id) :
                 CheckRefreshToken(r, users, now).status = 401)
    /\ [][\A a \in issued :
            (a.typ = "access" /\ a.id \in DOMAIN users
               /\ a.iat * 1000 < users[a.id].passwordChangedAt) => Rejected(a)']_vars

\* a password change has just emptied a list that held a token, and turned
\* away an access token that has not expired
C3_Witness ==
    /\ PasswordJustChanged
    /\ LoadedDoc(resp).refreshTokens # <<>>
    /\ users[resp.id].refreshTokens = <<>>
    /\ \E a \in AccessTokensOf(resp.id) :
         VerifyAccessToken(a, now) = "ok" /\ Rejected(a)

(***************************************************************************)
(* Testimonial moderation (SpecTestimonial).                               *)
(***************************************************************************)
\* C7: in every reachable state every featured testimonial is approved.
C7_FeaturedIsApproved ==
    \A id \in DOMAIN testimonials :
        testimonials[id].isFeatured => testimonials[id].isApproved

\* C8: featureTestimonial(id, true) on an existing testimonial that is not
\* approved fails with ValidationFailed (400).
C8_FeatureUnapprovedFails ==
    [][(/\ resp'.op = "feature"
        /\ resp'.id \in DOMAIN testimonials
        /\ ~testimonials[resp'.id].isApproved)
       => (resp'.status = 400
             /\ resp'.err = "Only approved testimonials can be featured")]_vars

\* a request to feature an existing, unapproved testimonial was refused
C8_Witness ==
    /\ resp.op = "feature" /\ resp.status = 400
    /\ resp.id \in DOMAIN testimonials
    /\ ~testimonials[resp.id].isApproved

(***************************************************************************)
(* Leaderboard (SpecDonation).                                             *)
(***************************************************************************)
\* the completed, non-anonymous donations of donor e
PublicOf(e) ==
    {i \in DOMAIN donations :
        /\ donations[i].donorEmail = e
        /\ donations[i].status = "completed"
        /\ ~donations[i].isAnonymous}

PublicDonors == {e \in {donations[i].donorEmail : i \in DOMAIN donations} : PublicOf(e) # {}}

TotalOf(e) == SumAmounts(donations, PublicOf(e))

Served == board.status = 200

\* C9: a leaderboard never holds an entry that counts a donation which is
\* not completed or is anonymous: each entry is a donor with a completed,
\* non-anonymous donation, and totals and counts exactly those donations; for
\* the example's collection, Leaderboard(10) is the single entry (A, 50).
C9_OnlyCompletedPublicCount ==
    Served =>
        /\ \A k \in DOMAIN board.list :
             /\ PublicOf(board.list[k].donorEmail) # {}
             /\ board.list[k].totalAmount = TotalOf(board.list[k].donorEmail)
             /\ board.list[k].donationCount = Cardinality(PublicOf(board.list[k].donorEmail))
        /\ (donations = ExampleDonations /\ board.query = {10}) =>
             /\ Len(board.list) = 1
             /\ board.list[1].donorEmail = "a@x.io"
             /\ board.list[1].totalAmount = 50

\* Leaderboard(10) was served for the example's collection
C9_Witness ==
    /\ Served /\ board.query = {10}
    /\ donations = ExampleDonations
    /\ Len(board.list) = 1 /\ board.list[1].totalAmount = 50

Smaller(m, n) == IF m < n THEN m ELSE n

\* C10: the leaderboard has one entry per donor among the completed,
\* non-anonymous donations, each with the sum and the number of that donor's
\* such donations, in non-increasing order of total, cut to limit entries,
\* and no donor left out has a larger total than one listed.
C10_LeaderboardIsTopDonors ==
    Served =>
        LET list == board.list
            listed == {list[k].donorEmail : k \in DOMAIN list}
        IN  /\ listed \subseteq PublicDonors
            /\ \A j, k \in DOMAIN list : j # k => list[j].donorEmail # list[k].donorEmail
            /\ \A k \in DOMAIN list :
                 /\ list[k].totalAmount = TotalOf(list[k].donorEmail)
                 /\ list[k].donationCount = Cardinality(PublicOf(list[k].donorEmail))
            /\ \A j, k \in DOMAIN list : j < k => list[j].totalAmount >= list[k].totalAmount
            /\ Len(list) = Smaller(ParseLimit(board.query), Cardinality(PublicDonors))
            /\ \A e \in PublicDonors \ listed :
                 \A k \in DOMAIN list : TotalOf(e) <= list[k].totalAmount

\* a leaderboard cut to one entry lists the larger of two donors and leaves
\* out the smaller
C10_Witness ==
    /\ Served /\ board.query = {1}
    /\ Cardinality(PublicDonors) = 2
    /\ Len(board.list) = 1
    /\ \E e \in PublicDonors : TotalOf(e) < board.list[1].totalAmount

(***************************************************************************)
(* Concurrent refresh (SpecRace).                                          *)
(***************************************************************************)
SameToken(q, r) == q # r /\ reqs[q].tok # {} /\ reqs[q].tok = reqs[r].tok

Succeeded(r) == reqs[r].pc = "done" /\ reqs[r].status = 200

\* q and r have both read the token list and neither has written it
BothReadNoneWrote(q, r) ==
    /\ SameToken(q, r)
    /\ reqs[q].pc = "remove" /\ reqs[r].pc = "remove"
    /\ reqs[q].ver = version /\ reqs[r].ver = version

\* q and r read the token list with no write between their reads
ReadTogether(q, r) ==
    SameToken(q, r) /\ reqs[q].read # {} /\ reqs[q].read = reqs[r].read

\* C6 as stated: two requests that present the same stored refresh token and
\* have both read the token list before either writes it both succeed.
C6_BothSucceed ==
    \A q, r \in Requests :
        BothReadNoneWrote(q, r) ~> (Succeeded(q) /\ Succeeded(r))

\* C6, corrected: of two requests that present the same stored refresh token
\* and read the token list with no write in between, at most one succeeds;
\* the save of the other is refused for its stale version (500), and the
\* stored list does not hold the presented token's successor twice over.
C6_AtMostOneSucceeds ==
    \A q, r \in Requests :
        ReadTogether(q, r) =>
            /\ ~(Succeeded(q) /\ Succeeded(r))
            /\ (reqs[q].pc = "done" /\ reqs[r].pc = "done") =>
                  {reqs[q].status, reqs[r].status} \in {{200, 500}, {500}}

\* two requests read the list together; one rotated the token, the other's
\* save was refused
C6_Witness ==
    \E q, r \in Requests :
        /\ ReadTogether(q, r)
        /\ Succeeded(q)
        /\ reqs[r].pc = "done" /\ reqs[r].status = 500
        /\ HasToken(users[Presented(q).id], RefreshOf(reqs[q].pair))


(***************************************************************************)
(* Claims on the statistics (SpecStats).                                   *)
(***************************************************************************)
StatsServed == stats.status = 200

\* C11: a statistics response served while no donation is completed holds the
\* all-zero overall record and empty trends and payment-method lists.
C11_StatsOfNoneCompleted ==
    (StatsServed /\ \A i \in DOMAIN donations : donations[i].status # "completed")
        => /\ stats.data.overall = [totalAmount |-> 0, totalDonations |-> 0,
                                     averageAmount |-> <<0, 1>>, maxAmount |-> 0,
                                     minAmount |-> 0]
           /\ stats.data.trends = <<>>
           /\ stats.data.paymentMethods = <<>>

C11_Witness ==
    /\ StatsServed
    /\ donations # <<>>
    /\ \A i \in DOMAIN donations : donations[i].status = "pending"
    /\ stats.data.overall.totalDonations = 0


(***************************************************************************)
(* Claims on the rating statistics (SpecRating).                           *)
(***************************************************************************)
ApprovedVisible == {id \in DOMAIN testimonials :
                      testimonials[id].isApproved /\ testimonials[id].isVisible}

WithRating(s) == {id \in ApprovedVisible : testimonials[id].rating = s}

TotalRating == 5 * Cardinality(WithRating(5)) + 4 * Cardinality(WithRating(4))
               + 3 * Cardinality(WithRating(3)) + 2 * Cardinality(WithRating(2))
               + Cardinality(WithRating(1))

\* |h / 100 - n / d| <= 1 / 200: h hundredths is n / d rounded to 2 decimals
RoundsTo(h, n, d) == 2 * (h * d - 100 * n) <= d /\ 2 * (100 * n - h * d) <= d

\* C12: served rating statistics count exactly the approved and visible
\* testimonials: totalReviews is their number, ratingCounts[s] the number with
\* rating s (summing to totalReviews), averageRating their mean rounded to 2
\* decimals; ratings 5,5,4,3 give 4.25 and counts 2,1,1,0,0; with none all is 0.
C12_RatingStatsCountPublished ==
    ratings.status = 200 =>
        LET d == ratings.data IN
        /\ d.totalReviews = Cardinality(ApprovedVisible)
        /\ \A s \in 1..5 : d.ratingCounts[s] = Cardinality(WithRating(s))
        /\ d.ratingCounts[1] + d.ratingCounts[2] + d.ratingCounts[3]
             + d.ratingCounts[4] + d.ratingCounts[5] = d.totalReviews
        /\ IF ApprovedVisible = {}
           THEN d.averageRating = 0
           ELSE RoundsTo(d.averageRating, TotalRating, Cardinality(ApprovedVisible))
        /\ (Cardinality(WithRating(5)) = 2 /\ Cardinality(WithRating(4)) = 1
              /\ Cardinality(WithRating(3)) = 1 /\ d.totalReviews = 4)
             => /\ d.averageRating = 425
                /\ d.ratingCounts = [s \in 1..5 |-> <<0, 0, 1, 1, 2>>[s]]

C12_Witness ==
    /\ ratings.status = 200
    /\ ratings.data.totalReviews = 4
    /\ ratings.data.averageRating = 425
    /\ testimonials = ExampleTestimonials


(***************************************************************************)
(* Claims on logout (SpecLogout).                                          *)
(***************************************************************************)
LogoutTokens == {{}} \cup {{t} : t \in RefreshTokens}

Usable(t, us) == CheckRefreshToken(t, us, now).status = 200

\* C13: a Logout that is served with a refresh token t removes the stored
\* entries equal to t, keeps every other stored token of the user in place and
\* usable, and one served without a token leaves the list empty; no other
\* field of the user and no other user's record changes.
C13_LogoutRemovesItsTokenOnly ==
    [][(resp'.op = "logout" /\ resp'.status = 200) =>
       \A a \in issued, rts \in LogoutTokens :
         (a.id = resp'.id /\ Logout(a, rts)) =>
            /\ DOMAIN users' = DOMAIN users
            /\ \A i \in DOMAIN users : i # a.id => users'[i] = users[i]
            /\ users'[a.id] = [users[a.id] EXCEPT !.refreshTokens = users'[a.id].refreshTokens]
            /\ IF rts = {}
               THEN users'[a.id].refreshTokens = <<>>
               ELSE /\ \A t \in rts : ~HasToken(users'[a.id], t)
                    /\ users'[a.id].refreshTokens =
                         SelectSeq(users[a.id].refreshTokens, LAMBDA x : x \notin rts)
                    /\ \A x \in RefreshTokens \ rts : Usable(x, users) => Usable(x, users')]_vars

\* a user keeps a token after a logout while another user holds tokens too
C13_Witness ==
    /\ resp.op = "logout" /\ resp.status = 200
    /\ Len(users) = 2
    /\ Len(users[resp.id].refreshTokens) = 1
    /\ Cardinality({t \in RefreshTokens : t.id = resp.id}) = 2
    /\ \E i \in DOMAIN users : i # resp.id /\ users[i].refreshTokens # <<>>


(***************************************************************************)
(* Claims on failed password changes (SpecPassword).                       *)
(***************************************************************************)
\* C14: a ChangePassword of an authenticated user fails with 401 when the
\* current password given is wrong, and with 400 when it is right and the new
\* password equals it; in both cases no stored user document changes (hash,
\* passwordChangedAt and refresh-token list included).
C14_FailedChangeKeepsAccount ==
    [][\A a \in issued, c \in Passwords, n \in Passwords :
         (ChangePassword(a, c, n) /\ Authenticate(a, users, now).status = 200) =>
            /\ users[a.id].password # Hash(c) => (resp'.status = 401 /\ users' = users)
            /\ (users[a.id].password = Hash(c) /\ n = c)
                  => (resp'.status = 400 /\ users' = users)]_vars

\* the same-password refusal on an account that holds a refresh token
C14_Witness ==
    /\ resp.op = "changePassword"
    /\ resp.status = 400
    /\ users[resp.id].refreshTokens # <<>>


(***************************************************************************)
(* Claims on failed logins (Spec).                                         *)
(***************************************************************************)
Unregistered(e) == \A i \in DOMAIN users : users[i].email # ToLowerCase(e)

WrongPasswordOnOpenAccount(e, p) ==
    \E i \in DOMAIN users :
        /\ users[i].email = ToLowerCase(e)
        /\ users[i].isActive
        /\ ~IsLocked(users[i], now)
        /\ users[i].password # Hash(p)

\* what a client sees of a refused login
Answer(r) == <<r.status, r.err, r.tokens>>

\* C15: a Login with an e-mail of no user and a Login with a wrong password on
\* an existing active unlocked account get one and the same answer: status 401,
\* the same message, no tokens.
C15_FailedLoginsLookAlike ==
    [][\A e \in Emails, p \in Passwords :
         (Login(e, p) /\ (Unregistered(e) \/ WrongPasswordOnOpenAccount(e, p)))
            => Answer(resp') = <<401, "Invalid email or password", {}>>]_vars

\* a login for an unregistered e-mail refused while an account exists
C15_Witness ==
    /\ resp.op = "login" /\ resp.id = 0
    /\ Answer(resp) = <<401, "Invalid email or password", {}>>
    /\ users # <<>>


(***************************************************************************)
(* Claims on the two kinds of token (SpecToken).                           *)
(***************************************************************************)
\* C16: no refresh token passes verifyAccessToken and no access token passes
\* verifyRefreshToken, for every value of the refresh secret and every token
\* issued; verifyRefreshToken rejects every token not marked 'refresh'; a
\* presented refresh token older than 7 days is refused with 401, stored or not,
\* and so is every presented token of the wrong kind.
C16_TokenKindsAreSeparate ==
    /\ [](\A tok \in issued, k \in RefreshSecrets :
            /\ VerifyAccessToken(SignRefresh(tok.id, tok.iat * 1000, k), now) # "ok"
            /\ VerifyRefreshTokenWith(SignAccess(tok.id, tok.iat * 1000, JwtSecret), now, k) # "ok"
            /\ tok.tokenType # {"refresh"} => VerifyRefreshTokenWith(tok, now, k) # "ok"
            /\ tok.typ = "refresh" => VerifyAccessToken(tok, now) # "ok"
            /\ tok.typ = "access" => VerifyRefreshToken(tok, now) # "ok")
    /\ [][\A tok \in issued :
            /\ (RefreshToken(tok) /\ Sec(now) - tok.iat > RefreshTtlSec)
                  => (resp'.status = 401 /\ users' = users)
            /\ (RefreshToken(tok) /\ tok.typ = "access")
                  => (resp'.status = 401 /\ users' = users)
            /\ (Verify(tok) /\ tok.typ = "refresh") => resp'.status = 401]_vars

\* a refresh token refused as expired while it is in the user's stored list
C16_Witness ==
    /\ resp.op = "refresh"
    /\ resp.status = 401
    /\ \E tok \in resp.req.token :
          /\ tok.typ = "refresh"
          /\ Sec(now) - tok.iat > RefreshTtlSec
          /\ HasToken(users[tok.id], tok)


(***************************************************************************)
(* Claims on the life cycle of a donation (SpecDonation).                  *)
(***************************************************************************)
\* C17: every donation that createDonation stores has status pending, whatever
\* the body holds, and the status of a stored donation changes only in a step
\* of updateDonationStatus.
C17_DonationsStartPending ==
    [][/\ Len(donations') > Len(donations)
            => donations'[Len(donations')].status = "pending"
       /\ \A i \in DOMAIN donations :
            (i \in DOMAIN donations' /\ donations'[i].status # donations[i].status)
                => resp'.op = "updateDonationStatus"]_vars


(***************************************************************************)
(* Claims on the life cycle of a testimonial (SpecTestimonial).            *)
(***************************************************************************)
\* C18: every testimonial that createTestimonial stores is neither approved
\* nor featured, whatever the body holds, and a stored testimonial becomes
\* approved only in a step of the approve operation.
C18_TestimonialsStartUnapproved ==
    [][/\ tCreated' > tCreated
            => /\ ~testimonials'[tCreated'].isApproved
               /\ ~testimonials'[tCreated'].isFeatured
       /\ \A id \in DOMAIN testimonials :
            (id \in DOMAIN testimonials' /\ testimonials'[id].isApproved
               /\ ~testimonials[id].isApproved) => resp'.op = "approve"]_vars


(***************************************************************************)
(* Claims on error responses (SpecError).                                  *)
(***************************************************************************)
Answered == resp.op = "error"

\* C19: outside development mode the response to an operational error has the
\* error's own status and message, and the response to any other error has
\* status 500, the generic message and no detail of the error.
C19_ErrorsKeepStatusAndMessage ==
    (Answered /\ resp.env # "development") =>
        IF resp.thrown.isOperational
        THEN /\ resp.response.status = resp.thrown.statusCode
             /\ resp.response.message = resp.thrown.message
        ELSE /\ resp.response.status = 500
             /\ resp.response.message = <<"Something went wrong">>
             /\ resp.response.errors = <<>>
             /\ resp.response.name = "" /\ ~resp.response.stack


(***************************************************************************)
(* Claims on the aggregations as functions of the store (SpecDonation).    *)
(***************************************************************************)
\* C20: a served leaderboard is the only list the aggregation can return over
\* the stored donations and the limit asked, and served statistics hold the
\* only trends and the only payment-method list it can return over them.
C20_AggregationsAreFunctions ==
    /\ board.status = 200 =>
          \A l \in Leaderboards(donations, ParseLimit(board.query)) : l = board.list
    /\ stats.status = 200 =>
          /\ stats.data.overall = GetStats(donations)
          /\ \A t \in Trends(donations) : t = stats.data.trends
          /\ \A pm \in PaymentMethodStats(donations) : pm = stats.data.paymentMethods


(***************************************************************************)
(* Claims on the attempt counter (Spec).                                   *)
(***************************************************************************)
AccountOf(e) == CHOOSE i \in DOMAIN users : users[i].email = ToLowerCase(e)

\* a previous lock that has expired: lockUntil is set and lies before t
LockExpired(u, t) == \E l \in u.lockUntil : l < t

LockedAccount(e) ==
    \E i \in DOMAIN users : users[i].email = ToLowerCase(e) /\ IsLocked(users[i], now)

\* C21: a Login with a wrong password on an existing, active, unlocked account
\* issues no tokens and adds exactly one to the stored counter; the failure
\* that brings the counter to 5 sets lockUntil = now + 2h and no earlier one
\* sets it; a failure after a lock has expired clears lockUntil and restarts
\* the counter at 1; a Login on a locked account leaves the counter as it is.
C21_FailuresCountAndLock ==
    [][\A e \in Emails, p \in Passwords :
         /\ (Login(e, p) /\ WrongPasswordOnOpenAccount(e, p)) =>
              LET i == AccountOf(e) IN
              /\ resp'.tokens = {} /\ issued' = issued
              /\ IF LockExpired(users[i], now)
                 THEN users'[i].lockUntil = {} /\ users'[i].loginAttempts = 1
                 ELSE /\ users'[i].loginAttempts = users[i].loginAttempts + 1
                      /\ users'[i].loginAttempts = MaxLoginAttempts =>
                           users'[i].lockUntil = {now + LockMs}
                      /\ users'[i].loginAttempts < MaxLoginAttempts =>
                           users'[i].lockUntil = {}
         /\ (Login(e, p) /\ LockedAccount(e)) =>
              /\ users'[AccountOf(e)].loginAttempts = users[AccountOf(e)].loginAttempts
              /\ users'[AccountOf(e)].lockUntil = users[AccountOf(e)].lockUntil]_vars

\* a wrong password has just been refused on an account whose lock, set by
\* its fifth failure, had expired: the counter restarted at 1
C21_Witness ==
    /\ ServedLogin(resp) /\ resp.status = 401
    /\ LoadedDoc(resp).loginAttempts = MaxLoginAttempts
    /\ LockExpired(LoadedDoc(resp), now)
    /\ users[resp.id].loginAttempts = 1
    /\ users[resp.id].lockUntil = {}


(***************************************************************************)
(* Claims on deactivation (SpecAccount).                                   *)
(***************************************************************************)
Inactive(i) == i \in DOMAIN users /\ ~users[i].isActive

\* C22: after deactivateAccount the user record exists with isActive false
\* and an empty refresh-token list; from then on every Login for it is
\* answered 401 without tokens, RefreshToken refuses every token issued to it,
\* the middleware rejects every access token of it, and no step makes the
\* account active again.
C22_DeactivatedStaysOut ==
    /\ [](\A i \in DOMAIN users : Inactive(i) =>
            /\ users[i].refreshTokens = <<>>
            /\ \A a \in AccessTokensOf(i) : Authenticate(a, users, now).status = 401
            /\ \A r \in RefreshTokensOf(i) : CheckRefreshToken(r, users, now).status = 401)
    /\ [][/\ (resp'.op = "deactivate" /\ resp'.status = 200) =>
                /\ DOMAIN users' = DOMAIN users
                /\ ~users'[resp'.id].isActive /\ users'[resp'.id].refreshTokens = <<>>
          /\ \A i \in DOMAIN users : Inactive(i) =>
                /\ i \in DOMAIN users' /\ ~users'[i].isActive
                /\ (ServedLogin(resp') /\ resp'.id = i) =>
                      (resp'.status = 401 /\ resp'.tokens = {} /\ issued' = issued)
                /\ (resp'.op = "refresh" /\ \E t \in resp'.req.token : t.id = i) =>
                      (resp'.status = 401 /\ issued' = issued)
                /\ (resp'.op = "register" /\ ToLowerCase(resp'.req.email) = users[i].email) =>
                      resp'.status # 201]_vars

\* a login is refused on a deactivated account to which tokens were issued
C22_Witness ==
    /\ ServedLogin(resp) /\ resp.status = 401
    /\ Inactive(resp.id)
    /\ RefreshTokensOf(resp.id) # {}
    /\ \E a \in AccessTokensOf(resp.id) : VerifyAccessToken(a, now) = "ok"


(***************************************************************************)
(* Claims on the staleness check (SpecAccount).                            *)
(***************************************************************************)
\* a pair was handed out by Register, Login or RefreshToken
PairIssued(r) == r.op \in {"register", "login", "refresh"} /\ r.tokens # {}

StaleAnswer == "Password recently changed. Please log in again"

\* C23: the access token of every pair that Register, Login or RefreshToken
\* hands out passes the staleness check of the middleware against the user
\* record as it stands when the pair is returned, whatever the millisecond of
\* the password's last setting.
C23_FreshTokenIsNotStale ==
    [][PairIssued(resp') =>
         \A a \in resp'.tokens :
            a.typ = "access" => Authenticate(a, users', now').err # StaleAnswer]_vars


(***************************************************************************)
(* Claims on the values of refresh tokens (SpecAccount).                   *)
(***************************************************************************)
\* C24: the refresh token that Register, Login or RefreshToken stores differs
\* from every token already in the user's list and from the token just
\* consumed: no list holds one value twice, and the pair returned by
\* RefreshToken(t) does not hold t.
C24_StoredTokensAreDistinct ==
    /\ [](\A i \in DOMAIN users :
            \A j, k \in DOMAIN users[i].refreshTokens :
               j # k => users[i].refreshTokens[j] # users[i].refreshTokens[k])
    /\ [][(resp'.op = "refresh" /\ resp'.status = 200)
            => resp'.req.token \cap resp'.tokens = {}]_vars


(***************************************************************************)
(* Claims on a refused featuring (SpecTestimonial).                        *)
(***************************************************************************)
\* C25: when featureTestimonial is refused with 400 because the testimonial
\* is not approved, the stored testimonial is as it was before the call: a
\* testimonial that was not featured is still not featured.
C25_RefusedFeatureChangesNothing ==
    [][(resp'.op = "feature" /\ resp'.status = 400) =>
         /\ testimonials' = testimonials
         /\ ~testimonials[resp'.id].isFeatured => ~testimonials'[resp'.id].isFeatured]_vars


(***************************************************************************)
(* Claims on concurrent failed logins (SpecLock).                          *)
(***************************************************************************)
\* C26: under every interleaving of concurrent wrong-password logins on one
\* account, a stored counter of 5 or more comes with lockUntil set.
C26_FiveFailuresMeanLocked ==
    \A i \in DOMAIN users :
        users[i].loginAttempts >= MaxLoginAttempts => users[i].lockUntil # {}


(***************************************************************************)
(* Claims on requests overtaken by a clear of the token list (SpecClear).  *)
(***************************************************************************)
\* C27: once a password change, a logout from all devices or a deactivation
\* has completed, the stored list never holds a usable refresh token issued
\* to a login or refresh that read the user record before that completion.
C27_ClearedListStaysClear ==
    \A q \in Requests :
        (reqs[q].overtaken /\ reqs[q].pair # {})
            => ~Usable(RefreshOf(reqs[q].pair), users)


(***************************************************************************)
(* Claims on concurrent writers of the token list (SpecTokens).            *)
(***************************************************************************)
Tokens(list) == {list[k] : k \in DOMAIN list}

\* the refresh token a request presented: that of a refresh or of a logout
PresentedBy(r) == {t \in reqs[r].tok \cup reqs[r].body : t \in RefreshTokens}

Stepped(r) == reqs'[r] # reqs[r]

\* C28: under every interleaving of logins, refreshes and single-token
\* logouts of one user, a token leaves the stored list only in a step of a
\* request that presented it: no save of a filtered list drops a token that
\* another request added.
C28_OnlyThePresentedTokenLeaves ==
    [][\A i \in DOMAIN users :
         \A x \in Tokens(users[i].refreshTokens) \ Tokens(users'[i].refreshTokens) :
            \E r \in Requests : Stepped(r) /\ x \in PresentedBy(r)]_vars

\* a login added a token between the read and the save of another request,
\* whose save was refused, and the added token is stored
C28_Witness ==
    \E q, r \in Requests :
        /\ reqs[q].kind = "login" /\ Succeeded(q)
        /\ reqs[r].pc = "done" /\ reqs[r].status = 500
        /\ HasToken(users[1], RefreshOf(reqs[q].pair))
        /\ RefreshOf(reqs[q].pair) \notin PresentedBy(r)


(***************************************************************************)
(* Claims on statistics served during writes (SpecReport).                 *)
(***************************************************************************)
RECURSIVE SumOver(_, _)
\* the sum of field f over the entries of the payment-method list pm
SumOver(pm, f) ==
    IF pm = <<>> THEN 0
    ELSE (IF f = "count" THEN pm[1].count ELSE pm[1].totalAmount) + SumOver(Tail(pm), f)

\* C29: in every statistics response the counts and the totals of the payment
\* methods sum to overall.totalDonations and overall.totalAmount, and no
\* percentage exceeds 100, also when donations are written while the request
\* is served.
C29_StatsPartsAgree ==
    StatsServed =>
        LET d == stats.data IN
        /\ SumOver(d.paymentMethods, "count") = d.overall.totalDonations
        /\ SumOver(d.paymentMethods, "totalAmount") = d.overall.totalAmount
        /\ \A k \in DOMAIN d.paymentMethods : d.paymentMethods[k].percentage <= 100 * 100


\* C30: Database.connect terminates: a call that starts from retryAttempts = 0
\* makes at most maxRetries (5) attempts, waits 5000 ms * 1.5^(k-1) before its
\* k-th retry, and ends either connected (isConnected true, retryAttempts 0)
\* or by throwing after the 5th consecutive failure; a call made while
\* isConnected is true makes no attempt.
CallEnds ==
    /\ database'.outcome # ""
    /\ database.outcome = "" \/ database'.calls # database.calls

\* a call from retryAttempts = 0 ends connected with the counter at 0, or
\* thrown on its 5th failure
EndsConnectedOrThrown ==
    (CallEnds /\ database'.from = 0) =>
        \/ /\ database'.outcome = "returned"
           /\ database'.isConnected
           /\ database'.retryAttempts = 0
        \/ /\ database'.outcome = "thrown"
           /\ database'.attempts = MaxRetries

\* a call made while isConnected is true makes no attempt
ConnectedCallMakesNoAttempt ==
    (database'.calls # database.calls /\ database.isConnected) =>
        /\ database'.pc = "idle"
        /\ database'.attempts = 0
        /\ database'.listeners = database.listeners

C30_ConnectEnds ==
    /\ [](database.from = 0 => database.attempts <= MaxRetries)
    /\ [](\A k \in DOMAIN database.waits : database.waits[k] = DelayOf(k))
    /\ [][EndsConnectedOrThrown /\ ConnectedCallMakesNoAttempt]_vars
    /\ []((database.pc # "idle") ~> (database.pc = "idle"))

=========================================================================
